---- MODULE Spec2Model ----
(***************************************************************************)
(* Level5: metered LLM proxy with an on-chain funded prepaid ledger.       *)
(* Model of src/src/level5/proxy/{database,mirror,main}.py.                *)
(*                                                                         *)
(* The ledger (SQLite) is the record DB; every database.py function is an  *)
(* operator from a ledger value to a ledger value (and a return value),    *)
(* and commits on its own connection.  The proxy and the mirror run as     *)
(* asyncio tasks on one event loop, so a task is pre-empted only at an     *)
(* await: an action of a task is the code between two awaits.  Another     *)
(* process writing the same file (scripts/smoke_setup.py, a second server  *)
(* process loading main.app) can commit between any two ledger calls;      *)
(* where it runs, a caller of the ledger is one action per ledger call.    *)
(***************************************************************************)
EXTENDS Integers, Sequences, FiniteSets, TLC

VARIABLES agents, transactions, api_tokens, token_config,
          req, chain, watched, poll, txn, calc, life, script, call

vars == <<agents, transactions, api_tokens, token_config,
          req, chain, watched, poll, txn, calc, life, script, call>>

ledger_vars == <<agents, transactions, api_tokens, token_config>>

(***************************************************************************)
(* Bounds of the model.                                                    *)
(***************************************************************************)
\* longest transaction log explored
MaxTx == 3
\* most usage-bearing SSE events relayed in one stream
MaxEvents == 2

(***************************************************************************)
(* Python floats.  usd_rate is a REAL column and get_exchange_rate returns *)
(* float(row["usd_rate"]): an IEEE-754 binary64.  A float >= 0 is the pair *)
(* (m, e) standing for m * 2^e, the integer m written in digits of base    *)
(* 2^15, least significant first, so that every product of two digits is   *)
(* a 32-bit integer.                                                       *)
(***************************************************************************)
TwoTo(k) ==
    LET RECURSIVE P(_)
        P(n) == IF n = 0 THEN 1 ELSE 2 * P(n - 1)
    IN P(k)

Base == TwoTo(15)

\* the digits of the natural number n
Digits(n) ==
    LET RECURSIVE D(_)
        D(x) == IF x = 0 THEN <<>> ELSE <<x % Base>> \o D(x \div Base)
    IN D(n)

\* the number of bits of the natural number n, of one digit or of many
BitsOf(n) ==
    LET RECURSIVE F(_)
        F(x) == IF x = 0 THEN 0 ELSE 1 + F(x \div 2)
    IN F(n)

BitLen(a) == IF a = <<>> THEN 0 ELSE 15 * (Len(a) - 1) + BitsOf(a[Len(a)])

\* a * s + carry for a digit sequence a and s <= 2^15
Times(a, s, carry) ==
    LET RECURSIVE F(_, _)
        F(x, c) == IF x = <<>> THEN Digits(c)
                   ELSE LET t == x[1] * s + c
                        IN <<t % Base>> \o F(Tail(x), t \div Base)
    IN F(a, carry)

\* a * 2^k
Shl(a, k) ==
    LET RECURSIVE F(_)
        F(n) == IF n >= 15 THEN <<0>> \o F(n - 15) ELSE Times(a, TwoTo(n), 0)
    IN IF a = <<>> THEN <<>> ELSE F(k)

\* a <= b
Leq(a, b) ==
    LET RECURSIVE F(_)
        F(i) == IF i = 0 THEN TRUE
                ELSE IF a[i] # b[i] THEN a[i] < b[i]
                ELSE F(i - 1)
    IN IF Len(a) # Len(b) THEN Len(a) < Len(b) ELSE F(Len(a))

\* a - b for a >= b
Sub(a, b) ==
    LET RECURSIVE Minus(_, _, _)
        Minus(x, y, borrow) ==
            IF x = <<>> THEN <<>>
            ELSE LET t == x[1] - (IF y = <<>> THEN 0 ELSE y[1]) - borrow
                 IN <<t % Base>> \o Minus(Tail(x),
                                          IF y = <<>> THEN <<>> ELSE Tail(y),
                                          IF t < 0 THEN 1 ELSE 0)
        RECURSIVE Trim(_)
        Trim(x) == IF x # <<>> /\ x[Len(x)] = 0
                   THEN Trim(SubSeq(x, 1, Len(x) - 1)) ELSE x
    IN Trim(Minus(a, b, 0))

\* quotient (an integer of the model) and remainder of a by d > 0
DivMod(a, d) ==
    LET RECURSIVE F(_, _, _)
        Bit(i, r, q, t) == IF Leq(t, r) THEN F(i - 1, Sub(r, t), q + TwoTo(i))
                           ELSE F(i - 1, r, q)
        F(i, r, q) == IF i < 0 THEN [q |-> q, r |-> r]
                      ELSE Bit(i, r, q, Shl(d, i))
    IN F(BitLen(a) - BitLen(d), a, 0)

Float(m, e) == [m |-> m, e |-> e]

\* float(n) for an int n < 2^53: exact
float(n) == Float(Digits(n), 0)

\* x > 0 for a float x >= 0
Positive(x) == x.m # <<>>

\* a / b for an int a < 2^53 and a float b > 0: the binary64 nearest to the
\* exact quotient, ties to even, kept as its integer part and whether a
\* fractional part is left.  With q the integer part of the exact quotient
\* and r the remainder, the floats next to q and to q + 1 are 2^(bits(q)-53)
\* apart: the quotient rounds to q when r / d is at most half of that and
\* to q + 1 when it is at most half of that below q + 1.
float_div(a, b) ==
    LET Nearest(qr, d, half) ==
            IF qr.r = <<>> \/ (qr.q # 0 /\ Leq(Shl(qr.r, half), d))
            THEN [int |-> qr.q, frac |-> FALSE]
            ELSE IF Leq(Shl(Sub(d, qr.r), half), d)
            THEN [int |-> qr.q + 1, frac |-> FALSE]
            ELSE [int |-> qr.q, frac |-> TRUE]
        Round(qr, d) == Nearest(qr, d, 54 - BitsOf(qr.q))
        Quotient(n, d) == Round(DivMod(n, d), d)
    IN Quotient(IF b.e < 0 THEN Shl(Digits(a), -b.e) ELSE Digits(a),
                IF b.e > 0 THEN Shl(b.m, b.e) ELSE b.m)

\* math.ceil(x) of a float x >= 0
math_ceil(x) == IF x.frac THEN x.int + 1 ELSE x.int

(***************************************************************************)
(* Program constants and input domains.                                    *)
(***************************************************************************)
SOL_MINT == "SOL"
USDC_MINT == "USDC"
Mints == {USDC_MINT, SOL_MINT}
\* a mint the proxy neither prices nor debits; a deposit account may carry it
OTHER_MINT == "OTHER"
DepositMints == Mints \cup {OTHER_MINT}
Pubkeys == {"P1", "P2"}
\* the pubkey and the amount scripts/smoke_setup.py seeds: no deposit account
\* has this owner (it is no base58 key)
SEED_PUBKEY == "local-dev-agent"
SEED_AMOUNT == 10000000
\* the pubkeys the ledger may hold rows for
Agents == Pubkeys \cup {SEED_PUBKEY}
Tokens == {"T1"}
Codes == {"CODE1", "CODE2"}
NULL == "NULL"
None == "None"
\* usage_json left NULL (update_balance's default)
NoUsage == [null |-> TRUE]
\* SOL price in USDC held by token_config: 0 disables the fallback
SolRates == {float(0), float(150)}
\* balances an on-chain deposit account may show (u64, in smallest units)
\* 100 is below the cost of any priced request, 900 lamports pay for one
OnChainBalances == {0, 100, 900}
Keys == Agents \X DepositMints
\* the proxy requests in flight
Reqs == {1, 2}

(***************************************************************************)
(* database.py                                                             *)
(***************************************************************************)
DB == [agents |-> agents, transactions |-> transactions,
       api_tokens |-> api_tokens, token_config |-> token_config]

get_balance(db, pubkey, token_mint) ==
    IF <<pubkey, token_mint>> \in DOMAIN db.agents
    THEN db.agents[<<pubkey, token_mint>>]
    ELSE 0

\* every row of the agent, whatever its mint
get_all_balances(db, pubkey) ==
    [m \in {k[2] : k \in {j \in DOMAIN db.agents : j[1] = pubkey}}
        |-> db.agents[<<pubkey, m>>]]

\* the mutation of update_balance that forgets the transaction row
update_balance_nolog(db, pubkey, token_mint, amount, tx_type, usage_json) ==
    LET k == <<pubkey, token_mint>>
        inserted == IF k \in DOMAIN db.agents THEN db.agents
                    ELSE db.agents @@ (k :> 0)
    IN [db EXCEPT !.agents = [inserted EXCEPT ![k] = @ + amount]]

\* the mutation of update_balance whose UPDATE has no `AND token_mint = ?`
update_balance_allrows(db, pubkey, token_mint, amount, tx_type, usage_json) ==
    LET k == <<pubkey, token_mint>>
        inserted == IF k \in DOMAIN db.agents THEN db.agents
                    ELSE db.agents @@ (k :> 0)
    IN [db EXCEPT
          !.agents = [j \in DOMAIN inserted |->
                        IF j[1] = pubkey THEN inserted[j] + amount
                        ELSE inserted[j]],
          !.transactions = Append(@,
              [agent_pubkey |-> pubkey, token_mint |-> token_mint,
               type |-> tx_type, amount |-> amount,
               usage_json |-> usage_json])]

\* BEGIN; INSERT OR IGNORE row; balance = balance + amount; INSERT tx; COMMIT
update_balance(db, pubkey, token_mint, amount, tx_type, usage_json) ==
    LET k == <<pubkey, token_mint>>
        inserted == IF k \in DOMAIN db.agents THEN db.agents
                    ELSE db.agents @@ (k :> 0)
    IN [db EXCEPT
          !.agents = [inserted EXCEPT ![k] = @ + amount],
          !.transactions = Append(@,
              [agent_pubkey |-> pubkey, token_mint |-> token_mint,
               type |-> tx_type, amount |-> amount,
               usage_json |-> usage_json])]

get_exchange_rate(db, token_mint) ==
    IF token_mint \in DOMAIN db.token_config
    THEN db.token_config[token_mint]
    ELSE float(0)

set_exchange_rate(db, token_mint, usd_rate) ==
    IF token_mint \in DOMAIN db.token_config
    THEN [db EXCEPT !.token_config[token_mint] = usd_rate]
    ELSE db

\* the mutation of create_api_token whose table has no UNIQUE on deposit_code
create_api_token_nounique(db, api_token, deposit_code) ==
    IF api_token \in DOMAIN db.api_tokens
    THEN db
    ELSE [db EXCEPT !.api_tokens =
            @ @@ (api_token :> [deposit_code |-> deposit_code,
                                pubkey |-> NULL])]

\* the mutation of create_api_token that inserts with INSERT OR REPLACE
create_api_token_replace(db, api_token, deposit_code) ==
    [db EXCEPT !.api_tokens =
        (api_token :> [deposit_code |-> deposit_code, pubkey |-> NULL])
           @@ [t \in {u \in DOMAIN @ : @[u].deposit_code # deposit_code} |-> @[t]]]

\* api_token and deposit_code are the two uuid4 draws; a clash with the
\* PRIMARY KEY or the UNIQUE column raises and inserts nothing
create_api_token(db, api_token, deposit_code) ==
    IF \/ api_token \in DOMAIN db.api_tokens
       \/ \E t \in DOMAIN db.api_tokens :
             db.api_tokens[t].deposit_code = deposit_code
    THEN db
    ELSE [db EXCEPT !.api_tokens =
            @ @@ (api_token :> [deposit_code |-> deposit_code,
                                pubkey |-> NULL])]

RowsWithCode(db, deposit_code) ==
    {t \in DOMAIN db.api_tokens : db.api_tokens[t].deposit_code = deposit_code}

\* the mutation of activate_token that finds the row but never writes it
activate_token_noset(db, deposit_code, pubkey) ==
    LET rows == RowsWithCode(db, deposit_code)
    IN IF rows = {}
       THEN [db |-> db, ret |-> None]
       ELSE [db |-> db, ret |-> CHOOSE t \in rows : TRUE]

\* the mutation of activate_token that, finding no row for the code, binds
\* the pending tokens instead
activate_token_anypending(db, deposit_code, pubkey) ==
    LET rows == RowsWithCode(db, deposit_code)
        hit == IF rows # {} THEN rows
               ELSE {t \in DOMAIN db.api_tokens : db.api_tokens[t].pubkey = NULL}
    IN IF hit = {}
       THEN [db |-> db, ret |-> None]
       ELSE [db |-> [db EXCEPT !.api_tokens =
                       [t \in DOMAIN @ |->
                          IF t \in hit
                          THEN [@[t] EXCEPT !.pubkey = pubkey]
                          ELSE @[t]]],
             ret |-> CHOOSE t \in hit : TRUE]

\* SELECT api_token WHERE deposit_code = ?; UPDATE ... SET pubkey = ?
activate_token(db, deposit_code, pubkey) ==
    LET rows == RowsWithCode(db, deposit_code)
    IN IF rows = {}
       THEN [db |-> db, ret |-> None]
       ELSE [db |-> [db EXCEPT !.api_tokens =
                       [t \in DOMAIN @ |->
                          IF t \in rows
                          THEN [@[t] EXCEPT !.pubkey = pubkey]
                          ELSE @[t]]],
             ret |-> CHOOSE t \in rows : TRUE]

\* database.find_token_by_deposit_code(deposit_code), as tests/test_mirror.py
\* calls it: database.py defines create_api_token, activate_token,
\* find_pending_token_for_pubkey and get_pubkey_from_token and no function
\* of this name, so the attribute lookup on the module raises
\* AttributeError before any row is read, whatever the ledger and the code
find_token_by_deposit_code(db, deposit_code) == "AttributeError"

\* the mutation of get_pubkey_from_token that returns the column as stored
get_pubkey_from_token_anyrow(db, api_token) ==
    IF api_token \in DOMAIN db.api_tokens
    THEN db.api_tokens[api_token].pubkey
    ELSE None

\* SELECT pubkey WHERE api_token = ?; None for no row or a NULL pubkey
get_pubkey_from_token(db, api_token) ==
    IF api_token \in DOMAIN db.api_tokens
       /\ db.api_tokens[api_token].pubkey # NULL
    THEN db.api_tokens[api_token].pubkey
    ELSE None

(***************************************************************************)
(* main.py: pricing and the debit policy                                   *)
(***************************************************************************)
PRICING ==
    [m \in {"claude-sonnet-4-5-20250929", "claude-opus-4-6",
            "claude-3-5-haiku-20241022", "gpt-4o", "gpt-5.2",
            "claude-4.5-opus"} |->
       CASE m = "claude-sonnet-4-5-20250929" -> [input |-> 3000, output |-> 15000]
         [] m = "claude-opus-4-6" -> [input |-> 15000, output |-> 75000]
         [] m = "claude-3-5-haiku-20241022" -> [input |-> 800, output |-> 4000]
         [] m = "gpt-4o" -> [input |-> 2500, output |-> 10000]
         [] m = "gpt-5.2" -> [input |-> 1500, output |-> 4500]
         [] m = "claude-4.5-opus" -> [input |-> 3000, output |-> 15000]]

DEFAULT_PRICING == [input |-> 5000, output |-> 15000]

\* the mutation of _calculate_cost_usdc that truncates each term
_calculate_cost_usdc_each(usage, model) ==
    LET pricing == IF model \in DOMAIN PRICING THEN PRICING[model]
                   ELSE DEFAULT_PRICING
    IN (usage.input_tokens * pricing.input) \div 1000
          + (usage.output_tokens * pricing.output) \div 1000

\* int(in * p.in / 1000 + out * p.out / 1000): one truncation after the sum
_calculate_cost_usdc(usage, model) ==
    LET pricing == IF model \in DOMAIN PRICING THEN PRICING[model]
                   ELSE DEFAULT_PRICING
    IN (usage.input_tokens * pricing.input
          + usage.output_tokens * pricing.output) \div 1000

\* the costs a SOL debit is asked for, and the prices of SOL it is converted
\* at: whole dollars, and 100.1 and 0.7 as binary64 holds them
\* (0x1.9066666666666p+6 and 0x1.6666666666666p-1)
Costs == {1, 7, 21, 135, 375, 1000, 1001}
Rates ==
    {float(1), float(7), float(150), float(1000),
     Float(<<13107, 26214, 3276, 100>>, -45),
     Float(<<13107, 26214, 19660, 89>>, -52)}

Quotients ==
    [p \in {c * 1000 : c \in Costs \cup {0}} \X Rates |-> float_div(p[1], p[2])] @@ <<>>

\* cost_usdc * 1000 / sol_rate: the quotients of the costs and rates the
\* model draws are worked out once, any other when it is asked for
truediv(a, b) ==
    IF <<a, b>> \in DOMAIN Quotients THEN Quotients[<<a, b>>] ELSE float_div(a, b)

\* the mutation of _debit_agent that skips the USDC balance check
_debit_agent_nocheck(db, pubkey, cost_usdc, usage_json) ==
    [db |-> update_balance(db, pubkey, USDC_MINT, -cost_usdc, "DEBIT", usage_json),
     ret |-> USDC_MINT]

\* the mutation of _debit_agent that tries SOL before USDC
_debit_agent_solfirst(db, pubkey, cost_usdc, usage_json) ==
    LET sol_rate == get_exchange_rate(db, SOL_MINT)
        cost_sol == math_ceil(truediv(cost_usdc * 1000, sol_rate))
    IN IF Positive(sol_rate) /\ get_balance(db, pubkey, SOL_MINT) >= cost_sol
       THEN [db |-> update_balance(db, pubkey, SOL_MINT, -cost_sol,
                                   "DEBIT", usage_json),
             ret |-> SOL_MINT]
       ELSE IF get_balance(db, pubkey, USDC_MINT) >= cost_usdc
       THEN [db |-> update_balance(db, pubkey, USDC_MINT, -cost_usdc,
                                   "DEBIT", usage_json),
             ret |-> USDC_MINT]
       ELSE [db |-> db, ret |-> None]

\* the mutation of _debit_agent that leaves an empty USDC row behind when
\* it fails
_debit_agent_failrow(db, pubkey, cost_usdc, usage_json) ==
    IF get_balance(db, pubkey, USDC_MINT) >= cost_usdc
    THEN [db |-> update_balance(db, pubkey, USDC_MINT, -cost_usdc,
                                "DEBIT", usage_json),
          ret |-> USDC_MINT]
    ELSE LET sol_rate == get_exchange_rate(db, SOL_MINT)
             cost_sol == math_ceil(truediv(cost_usdc * 1000, sol_rate))
         IN IF Positive(sol_rate) /\ get_balance(db, pubkey, SOL_MINT) >= cost_sol
            THEN [db |-> update_balance(db, pubkey, SOL_MINT, -cost_sol,
                                        "DEBIT", usage_json),
                  ret |-> SOL_MINT]
            ELSE [db |-> [db EXCEPT !.agents =
                            IF <<pubkey, USDC_MINT>> \in DOMAIN @ THEN @
                            ELSE @ @@ (<<pubkey, USDC_MINT>> :> 0)],
                  ret |-> None]

\* the mutation of _debit_agent that converts at the default rate when the
\* stored rate is 0
_debit_agent_defaultrate(db, pubkey, cost_usdc, usage_json) ==
    IF get_balance(db, pubkey, USDC_MINT) >= cost_usdc
    THEN [db |-> update_balance(db, pubkey, USDC_MINT, -cost_usdc,
                                "DEBIT", usage_json),
          ret |-> USDC_MINT]
    ELSE LET stored == get_exchange_rate(db, SOL_MINT)
             sol_rate == IF Positive(stored) THEN stored ELSE float(150)
             cost_sol == math_ceil(truediv(cost_usdc * 1000, sol_rate))
         IN IF get_balance(db, pubkey, SOL_MINT) >= cost_sol
            THEN [db |-> update_balance(db, pubkey, SOL_MINT, -cost_sol,
                                        "DEBIT", usage_json),
                  ret |-> SOL_MINT]
            ELSE [db |-> db, ret |-> None]

\* USDC first, then SOL at the exchange rate, else None
_debit_agent(db, pubkey, cost_usdc, usage_json) ==
    IF get_balance(db, pubkey, USDC_MINT) >= cost_usdc
    THEN [db |-> update_balance(db, pubkey, USDC_MINT, -cost_usdc,
                                "DEBIT", usage_json),
          ret |-> USDC_MINT]
    ELSE LET sol_rate == get_exchange_rate(db, SOL_MINT)
             cost_sol == math_ceil(truediv(cost_usdc * 1000, sol_rate))
         IN IF Positive(sol_rate) /\ get_balance(db, pubkey, SOL_MINT) >= cost_sol
            THEN [db |-> update_balance(db, pubkey, SOL_MINT, -cost_sol,
                                        "DEBIT", usage_json),
                  ret |-> SOL_MINT]
            ELSE [db |-> db, ret |-> None]

(***************************************************************************)
(* mirror.py: the reconciliation kernel                                    *)
(***************************************************************************)
\* the mutation of _sync_balance that credits the on-chain balance itself
_sync_balance_absolute(db, owner_pubkey, token_mint, on_chain_balance, deposit_code) ==
    LET current == get_balance(db, owner_pubkey, token_mint)
        delta == on_chain_balance - current
        activated == IF delta > 0 /\ current = 0 /\ deposit_code # ""
                     THEN activate_token(db, deposit_code, owner_pubkey).db
                     ELSE db
    IN IF delta # 0
       THEN update_balance(activated, owner_pubkey, token_mint, on_chain_balance,
                IF delta > 0 THEN "MIRROR_DEPOSIT" ELSE "MIRROR_CORRECTION",
                [on_chain_balance |-> on_chain_balance,
                 local_balance_before |-> current])
       ELSE activated

\* the mutation of _sync_balance that writes a transaction even when delta = 0
_sync_balance_always(db, owner_pubkey, token_mint, on_chain_balance, deposit_code) ==
    LET current == get_balance(db, owner_pubkey, token_mint)
        delta == on_chain_balance - current
        activated == IF delta > 0 /\ current = 0 /\ deposit_code # ""
                     THEN activate_token(db, deposit_code, owner_pubkey).db
                     ELSE db
    IN update_balance(activated, owner_pubkey, token_mint, delta,
                IF delta > 0 THEN "MIRROR_DEPOSIT" ELSE "MIRROR_CORRECTION",
                [on_chain_balance |-> on_chain_balance,
                 local_balance_before |-> current])

_sync_balance(db, owner_pubkey, token_mint, on_chain_balance, deposit_code) ==
    LET current == get_balance(db, owner_pubkey, token_mint)
        delta == on_chain_balance - current
        activated == IF delta > 0 /\ current = 0 /\ deposit_code # ""
                     THEN activate_token(db, deposit_code, owner_pubkey).db
                     ELSE db
    IN IF delta # 0
       THEN update_balance(activated, owner_pubkey, token_mint, delta,
                IF delta > 0 THEN "MIRROR_DEPOSIT" ELSE "MIRROR_CORRECTION",
                [on_chain_balance |-> on_chain_balance,
                 local_balance_before |-> current])
       ELSE activated

(***************************************************************************)
(* State                                                                   *)
(***************************************************************************)
EmptyFn == [x \in {} |-> 0]

SetDB(db) ==
    /\ agents' = db.agents
    /\ transactions' = db.transactions
    /\ api_tokens' = db.api_tokens
    /\ token_config' = db.token_config

\* usage counters an upstream response may carry; the mock path always
\* reports {15, 25}
MockUsage == [input_tokens |-> 15, output_tokens |-> 25]
Usages == {[input_tokens |-> 0, output_tokens |-> 0], MockUsage}
ReqModels == {"gpt-5.2"}
DepositCodes == Codes \cup {""}
\* what a parsed deposit account hands to the reconciliation: owner, mint,
\* balance and deposit code; of the mint the proxy does not price, one
\* account with no code
Deposits ==
    (Pubkeys \X Mints \X OnChainBalances \X DepositCodes)
        \cup {<<"P1", OTHER_MINT, 900, "">>}

POLL_INTERVAL == 5
MAX_BACKOFF == 60

Min(a, b) == IF a <= b THEN a ELSE b

\* consecutive failures are counted up to the number that reaches MAX_BACKOFF:
\* 5 * 2^4 and 1 * 2^6 are the first doublings above 60
PollFailsCap == 4
WsFailsCap == 6

\* messages the provider has sent on the WebSocket and the worker has not
\* yet received
MaxInbox == 2

\* _poll_loop's locals (backoff, poll_count), where it stands, the accounts
\* of the round still to poll, whether the last round succeeded, how many
\* rounds in a row have failed, and the RPC request the worker awaits:
\* whether the provider has served it and the accounts its answer carries
StoppedPoll == [pc |-> "stopped", todo |-> <<>>, poll_count |-> 0,
                ok |-> FALSE, backoff |-> POLL_INTERVAL, fails |-> 0,
                answered |-> FALSE, answer |-> <<>>]

\* the connection update_balance() holds: the statement it has reached, its
\* arguments, the rows as the open transaction sees them, and the statement
\* that raised
IdleTxn == [pc |-> "idle", pubkey |-> None, mint |-> None, amount |-> 0,
            type |-> None, work |-> [agents |-> EmptyFn, transactions |-> <<>>],
            failed_at |-> None]

\* the last pricing call made on its own: its arguments and what it returned
\* parse_deposit_account's None
NullAccount == [some |-> FALSE, owner |-> None, mint |-> None,
                deposit_code |-> "", balance |-> 0]

NoCalc == [op |-> None, input_tokens |-> 0, output_tokens |-> 0,
           model |-> None, cost_usdc |-> 0, rate |-> float(0), ret |-> None, out |-> 0,
           data |-> <<>>, parsed |-> NullAccount,
           now |-> 0, timestamp |-> <<>>, pubkey |-> None, token_mint |-> None,
           history |-> <<>>]

\* LiquidMirror(): _running, _tasks, where the WebSocket worker stands, the
\* accounts its session subscribed to, _ws_loop's backoff and the failures
\* in a row behind it, how far stop() has got, whether it has called
\* cancel() on the WebSocket task while that task was running, whether that
\* cancellation is still to be raised in the task, and how the worker is
\* leaving the `async with` block whose exit it awaits
NotStarted == [_running |-> FALSE, _tasks |-> <<>>, ws |-> "none",
               subs |-> {}, stop |-> "idle", cancel |-> FALSE,
               pending |-> FALSE, leave |-> "none",
               backoff |-> 1, fails |-> 0,
               todo |-> <<>>, idx |-> 0, sub_ids |-> EmptyFn,
               request |-> [id |-> 0, addr |-> None], server |-> EmptyFn,
               inbox |-> <<>>]

\* the usage counters a parser reads from a response body that carries no
\* usage object (an error detail, a canned completion, or nothing sent yet)
NoContent == [input_tokens |-> 0, output_tokens |-> 0]

\* a request slot: the route and {agent_token} of its path, the pubkey the
\* token resolved to, the response status, the steps taken so far, and for
\* a streamed response _handle_streaming's locals is_anthropic and
\* collected_events and the JSON data lines of the raw_bytes the client was
\* handed last and the generator has not taken up yet, and the usage
\* counters of the response body handed to the client
IdleReq == [pc |-> "idle", endpoint |-> None, token |-> None,
            pubkey |-> None, model |-> None, status |-> 0, steps |-> <<>>,
            is_anthropic |-> FALSE, collected |-> <<>>, chunk |-> <<>>,
            content |-> NoContent]

\* scripts/smoke_setup.py, a process of its own, one run per registration:
\* for the deposit code its POST /v1/register returned, the line of main()
\* the run has committed ("none" before line 38)
NoScript == [c \in Codes |-> "none"]

\* a caller of the ledger between two of its ledger calls: the line it is
\* at, its arguments and locals (pubkey; the cost or the delta as the
\* amount update_balance will get; the mint, type and usage_json of that
\* call; the deposit code to activate first), the balance its last
\* get_balance returned and the log length at that read
NoCall == [pc |-> "idle", pubkey |-> None, mint |-> None, amount |-> 0,
           type |-> None, usage_json |-> NoUsage, deposit_code |-> "",
           seen |-> 0, at |-> 0]

\* the two callers that take more than one ledger call: a request's
\* _debit_agent and a mirror worker's _sync_balance
NoCalls == [debit |-> NoCall, sync |-> NoCall]

\* init_db() on an empty file; SOL_USDC_RATE comes from the environment
Init ==
    /\ agents = EmptyFn
    /\ transactions = <<>>
    /\ api_tokens = EmptyFn
    /\ \E r \in SolRates :
          token_config = (SOL_MINT :> r) @@ (USDC_MINT :> float(1))
    /\ req = [r \in Reqs |-> IdleReq]
    /\ chain = EmptyFn
    /\ watched = <<>>
    /\ poll = StoppedPoll
    /\ txn = IdleTxn
    /\ calc = NoCalc
    /\ life = NotStarted
    /\ script = NoScript
    /\ call = NoCalls

\* the state outside the ledger and the request slots
mirror_vars == <<chain, watched, poll, txn, calc, life, script, call>>

(***************************************************************************)
(* Registration and direct ledger writes                                   *)
(***************************************************************************)
\* POST /v1/register
register_agent(api_token, deposit_code) ==
    /\ SetDB(create_api_token(DB, api_token, deposit_code))
    /\ UNCHANGED <<req, mirror_vars>>

\* scripts/smoke_setup.py line 38, after its POST /v1/register returned
\* deposit_code and init_db() found the tables in place: the MANUAL_SEED
\* written straight to the file and committed
SeedBalance(pubkey, amount, deposit_code) ==
    /\ script[deposit_code] = "none"
    /\ RowsWithCode(DB, deposit_code) # {}
    /\ Len(transactions) < MaxTx
    /\ SetDB(update_balance(DB, pubkey, USDC_MINT, amount, "MANUAL_SEED", NoUsage))
    /\ script' = [script EXCEPT ![deposit_code] = "seeded"]
    /\ UNCHANGED <<req, chain, watched, poll, txn, calc, life, call>>

\* scripts/smoke_setup.py line 39: the token of the run's registration is
\* bound to the seeded pubkey, in a commit of its own; the run ends
SeedActivate(pubkey, deposit_code) ==
    /\ script[deposit_code] = "seeded"
    /\ SetDB(activate_token(DB, deposit_code, pubkey).db)
    /\ script' = [script EXCEPT ![deposit_code] = "activated"]
    /\ UNCHANGED <<req, chain, watched, poll, txn, calc, life, call>>

\* database.set_exchange_rate, whoever calls it: the proxy has no caller
SetExchangeRate(token_mint, usd_rate) ==
    /\ SetDB(set_exchange_rate(DB, token_mint, usd_rate))
    /\ UNCHANGED <<req, mirror_vars>>

(***************************************************************************)
(* Mirror: one reconciliation of a parsed deposit account                  *)
(***************************************************************************)
\* _sync_balance run by a mirror worker with no other process writing the
\* file: it has no await, so no task of the event loop runs inside it
MirrorSync(owner, mint, on_chain_balance, deposit_code) ==
    /\ Len(transactions) < MaxTx
    /\ SetDB(_sync_balance(DB, owner, mint, on_chain_balance, deposit_code))
    /\ UNCHANGED <<req, mirror_vars>>

(***************************************************************************)
(* _sync_balance and _debit_agent as the ledger calls they are made of.    *)
(* Each call opens its own connection and commits, so a writer in another  *)
(* process can commit between any two of them.  Within one server process  *)
(* neither function has an await, so no other task of its event loop runs  *)
(* inside it: Quiet guards the start of a call where one process is meant. *)
(***************************************************************************)
\* no synchronous caller is between two ledger calls
Quiet == call.debit.pc = "idle" /\ call.sync.pc = "idle"

\* _sync_balance lines 329-343: get_balance, delta, and which of
\* activate_token and update_balance it goes on to call
SyncRead(owner_pubkey, token_mint, on_chain_balance, deposit_code) ==
    /\ call.sync.pc = "idle"
    /\ Len(transactions) < MaxTx
    /\ LET current == get_balance(DB, owner_pubkey, token_mint)
           delta == on_chain_balance - current
           write == [pc |-> "sync_update", pubkey |-> owner_pubkey,
                     mint |-> token_mint, amount |-> delta,
                     type |-> IF delta > 0 THEN "MIRROR_DEPOSIT"
                              ELSE "MIRROR_CORRECTION",
                     usage_json |-> [on_chain_balance |-> on_chain_balance,
                                     local_balance_before |-> current],
                     deposit_code |-> deposit_code,
                     seen |-> current, at |-> Len(transactions)]
       IN call' = [call EXCEPT !.sync =
                      IF delta > 0 /\ current = 0 /\ deposit_code # ""
                      THEN [write EXCEPT !.pc = "sync_activate"]
                      ELSE IF delta # 0 THEN write ELSE NoCall]
    /\ UNCHANGED <<ledger_vars, req, chain, watched, poll, txn, calc, life, script>>

\* the activate_token call of _sync_balance, committed
SyncActivate ==
    /\ call.sync.pc = "sync_activate"
    /\ SetDB(activate_token(DB, call.sync.deposit_code, call.sync.pubkey).db)
    /\ call' = [call EXCEPT !.sync.pc = "sync_update"]
    /\ UNCHANGED <<req, chain, watched, poll, txn, calc, life, script>>

\* the update_balance call of _sync_balance: the delta computed from the
\* balance read at the start is added to the balance as it is now
SyncUpdate ==
    /\ call.sync.pc = "sync_update"
    /\ Len(transactions) < MaxTx
    /\ SetDB(update_balance(DB, call.sync.pubkey, call.sync.mint,
                            call.sync.amount, call.sync.type,
                            call.sync.usage_json))
    /\ call' = [call EXCEPT !.sync = NoCall]
    /\ UNCHANGED <<req, chain, watched, poll, txn, calc, life, script>>

(***************************************************************************)
(* Proxy: openai_proxy / anthropic_proxy -> handle_proxy                   *)
(***************************************************************************)
Sum(f) ==
    LET RECURSIVE S(_)
        S(D) == IF D = {} THEN 0
                ELSE LET x == CHOOSE y \in D : TRUE
                     IN f[x] + S(D \ {x})
    IN S(DOMAIN f)

\* the mutation of the handler that forwards without resolving the token
ReqStart_noauth(r, agent_token) ==
    /\ req[r].pc = "idle"
    /\ req' = [req EXCEPT ![r] = [@ EXCEPT !.pc = "body",
                  !.endpoint = "proxy", !.token = agent_token,
                  !.pubkey = CHOOSE p \in Pubkeys : TRUE]]
    /\ UNCHANGED <<ledger_vars, mirror_vars>>

\* the mutation of the handler that admits without looking at the balances
ReqStart_noadmit(r, agent_token) ==
    /\ req[r].pc = "idle"
    /\ LET pubkey == get_pubkey_from_token(DB, agent_token)
       IN IF pubkey = None
          THEN req' = [req EXCEPT ![r] = [@ EXCEPT !.pc = "done",
                          !.endpoint = "proxy", !.token = agent_token,
                          !.status = 401, !.steps = <<"auth_fail">>]]
          ELSE req' = [req EXCEPT ![r] = [@ EXCEPT !.pc = "body",
                          !.endpoint = "proxy", !.token = agent_token,
                          !.pubkey = pubkey,
                          !.steps = <<"auth", "admission">>]]
    /\ UNCHANGED <<ledger_vars, mirror_vars>>

\* token auth, then admission on the summed balances, up to the first await
ReqStart(r, agent_token) ==
    /\ req[r].pc = "idle"
    /\ LET pubkey == get_pubkey_from_token(DB, agent_token)
       IN IF pubkey = None
          THEN req' = [req EXCEPT ![r] = [@ EXCEPT !.pc = "done",
                          !.endpoint = "proxy", !.token = agent_token,
                          !.status = 401, !.steps = <<"auth_fail">>]]
          ELSE IF Sum(get_all_balances(DB, pubkey)) <= 0
          THEN req' = [req EXCEPT ![r] = [@ EXCEPT !.pc = "done",
                          !.endpoint = "proxy", !.token = agent_token,
                          !.pubkey = pubkey, !.status = 402,
                          !.steps = <<"auth", "admission_fail">>]]
          ELSE req' = [req EXCEPT ![r] = [@ EXCEPT !.pc = "body",
                          !.endpoint = "proxy", !.token = agent_token,
                          !.pubkey = pubkey,
                          !.steps = <<"auth", "admission">>]]
    /\ UNCHANGED <<ledger_vars, mirror_vars>>

\* GET /proxy/{agent_token}/balance: token auth, then the balances as stored
balance_endpoint(r, agent_token) ==
    /\ req[r].pc = "idle"
    /\ LET pubkey == get_pubkey_from_token(DB, agent_token)
       IN req' = [req EXCEPT ![r] =
                    IF pubkey = None
                    THEN [@ EXCEPT !.pc = "done", !.endpoint = "balance",
                                   !.token = agent_token, !.status = 401,
                                   !.steps = <<"auth_fail">>]
                    ELSE [@ EXCEPT !.pc = "done", !.endpoint = "balance",
                                   !.token = agent_token, !.pubkey = pubkey,
                                   !.status = 200, !.steps = <<"auth">>]]
    /\ UNCHANGED <<ledger_vars, mirror_vars>>

\* the mutation of the billing tail that answers ok whatever the debit returned
Charge_ignore(r, usage, model, ok_status, fail_status, pre, ok_content, fail_content) ==
    LET cost_usdc == _calculate_cost_usdc(usage, model)
        d == _debit_agent(DB, req[r].pubkey, cost_usdc, usage)
    IN /\ SetDB(d.db)
       /\ req' = [req EXCEPT ![r] = [@ EXCEPT !.pc = "done", !.model = model,
                     !.status = ok_status,
                     !.content = ok_content,
                     !.steps = @ \o pre \o
                        (IF d.ret = None THEN <<"usage", "debit_fail">>
                         ELSE <<"usage", "debit">>)]]

\* usage is known: price it and debit; the common tail of every path
Charge(r, usage, model, ok_status, fail_status, pre, ok_content, fail_content) ==
    LET cost_usdc == _calculate_cost_usdc(usage, model)
        d == _debit_agent(DB, req[r].pubkey, cost_usdc, usage)
    IN /\ SetDB(d.db)
       /\ req' = [req EXCEPT ![r] = [@ EXCEPT !.pc = "done", !.model = model,
                     !.status = IF d.ret = None THEN fail_status ELSE ok_status,
                     !.content = IF d.ret = None THEN fail_content
                                 ELSE ok_content,
                     !.steps = @ \o pre \o
                        (IF d.ret = None THEN <<"usage", "debit_fail">>
                         ELSE <<"usage", "debit">>)]]

\* body read; the mock path bills the canned usage and answers at once.
\* The canned SSE body of a streaming request carries that usage; the
\* canned JSON body of a non-streaming one has an id and choices only.
ReqBodyMock(r, model, is_streaming) ==
    /\ req[r].pc = "body"
    /\ Len(transactions) < MaxTx
    /\ Charge(r, MockUsage, model, 200, 402, <<>>,
              IF is_streaming THEN MockUsage ELSE NoContent, NoContent)
    /\ UNCHANGED mirror_vars

\* body read, but it is not JSON or not a JSON object: json.loads or
\* body.get raises before the mock switch is looked at, nothing is priced
\* and the client gets the server's 500
ReqBodyBad(r) ==
    /\ req[r].pc = "body"
    /\ req' = [req EXCEPT ![r] = [@ EXCEPT !.pc = "done", !.status = 500]]
    /\ UNCHANGED <<ledger_vars, mirror_vars>>

\* body read, real upstream, no API key configured
ReqBodyNoKey(r) ==
    /\ req[r].pc = "body"
    /\ req' = [req EXCEPT ![r] = [@ EXCEPT !.pc = "done", !.status = 500]]
    /\ UNCHANGED <<ledger_vars, mirror_vars>>

\* body read, real upstream: POST sent (non-streaming) or the streaming
\* response handed back with its generator not yet started;
\* _handle_streaming reads is_anthropic off the route's upstream_url
ReqBodyReal(r, model, is_streaming, is_anthropic) ==
    /\ req[r].pc = "body"
    /\ req' = [req EXCEPT ![r] =
                 IF is_streaming
                 THEN [@ EXCEPT !.pc = "stream_open", !.model = model,
                                !.status = 200, !.is_anthropic = is_anthropic]
                 ELSE [@ EXCEPT !.pc = "upstream", !.model = model,
                                !.steps = Append(@, "upstream_send")]]
    /\ UNCHANGED <<ledger_vars, mirror_vars>>

\* the mutation of UpstreamResponse that answers 402 when the debit fails
UpstreamResponse_402(r, usage, status_code) ==
    /\ req[r].pc = "upstream"
    /\ Len(transactions) < MaxTx
    /\ Charge(r, usage, req[r].model, status_code, 402, <<"upstream_recv">>,
              usage, NoContent)
    /\ UNCHANGED mirror_vars

\* the upstream answered with a JSON object whose usage, if any, is an
\* object: parse usage, debit, relay the upstream's status and content
UpstreamResponse(r, usage, status_code) ==
    /\ req[r].pc = "upstream"
    /\ Len(transactions) < MaxTx
    /\ Charge(r, usage, req[r].model, status_code, status_code, <<"upstream_recv">>,
              usage, usage)
    /\ UNCHANGED mirror_vars

\* httpx.HTTPError from the POST
UpstreamError(r) ==
    /\ req[r].pc = "upstream"
    /\ req' = [req EXCEPT ![r] = [@ EXCEPT !.pc = "done", !.status = 502]]
    /\ UNCHANGED <<ledger_vars, mirror_vars>>

\* the upstream answered with a body json.loads or the .get calls raise on
\* (not JSON, not an object, or "usage": null): the error is no
\* httpx.HTTPError, so it leaves the handler before pricing and the client
\* gets the server's 500
UpstreamBadBody(r) ==
    /\ req[r].pc = "upstream"
    /\ req' = [req EXCEPT ![r] = [@ EXCEPT !.pc = "done", !.status = 500,
                  !.steps = Append(@, "upstream_recv")]]
    /\ UNCHANGED <<ledger_vars, mirror_vars>>

\* event_generator starts: the streamed POST is opened
StreamOpen(r) ==
    /\ req[r].pc = "stream_open"
    /\ req' = [req EXCEPT ![r] = [@ EXCEPT !.pc = "streaming",
                  !.steps = Append(@, "upstream_send")]]
    /\ UNCHANGED <<ledger_vars, mirror_vars>>

(***************************************************************************)
(* The SSE events of a stream, as far as the usage parsers read them:      *)
(* type, whether the event has a top-level "usage" object, and the four    *)
(* counters wherever the provider puts them.                               *)
(***************************************************************************)
SseEvent(type, top_usage, prompt, completion, input, output) ==
    [type |-> type, top_usage |-> top_usage,
     prompt_tokens |-> prompt, completion_tokens |-> completion,
     input_tokens |-> input, output_tokens |-> output]

\* OpenAI's closing chunk with usage; Anthropic's message_start (usage
\* inside "message") and message_delta (top-level usage)
StreamEvents ==
    {SseEvent("", TRUE, 15, 25, 0, 0),
     SseEvent("message_start", FALSE, 0, 0, 15, 0),
     SseEvent("message_delta", TRUE, 0, 0, 0, 25)}

\* message_start adds its input tokens, message_delta its output tokens
_parse_anthropic_sse_usage(events_data) ==
    LET RECURSIVE F(_, _, _)
        F(i, input_tokens, output_tokens) ==
            IF i > Len(events_data)
            THEN [input_tokens |-> input_tokens, output_tokens |-> output_tokens]
            ELSE LET event == events_data[i]
                 IN IF event.type = "message_start"
                    THEN F(i + 1, input_tokens + event.input_tokens, output_tokens)
                    ELSE IF event.type = "message_delta"
                    THEN F(i + 1, input_tokens, output_tokens + event.output_tokens)
                    ELSE F(i + 1, input_tokens, output_tokens)
    IN F(1, 0, 0)

\* every event with a usage object overwrites both counters
_parse_openai_sse_usage(events_data) ==
    LET RECURSIVE F(_, _, _)
        F(i, input_tokens, output_tokens) ==
            IF i > Len(events_data)
            THEN [input_tokens |-> input_tokens, output_tokens |-> output_tokens]
            ELSE LET event == events_data[i]
                 IN IF event.top_usage
                    THEN F(i + 1, event.prompt_tokens, event.completion_tokens)
                    ELSE F(i + 1, input_tokens, output_tokens)
    IN F(1, 0, 0)

\* event_generator lines 371-373: the next raw_bytes of the upstream body
\* arrives and is yielded; the generator is suspended at the yield while
\* the bytes go to the client.  data_lines are the events of its "data: "
\* lines that are JSON: none for a chunk of "[DONE]", comments or text.
StreamRelay(r, data_lines) ==
    /\ req[r].pc = "streaming"
    /\ Len(req[r].collected) + Len(data_lines) <= MaxEvents
    /\ req' = [req EXCEPT ![r] = [@ EXCEPT !.pc = "yielded",
                                           !.chunk = data_lines]]
    /\ UNCHANGED <<ledger_vars, mirror_vars>>

\* the mutation of the relay loop that charges for every chunk
StreamAppend_charge(r) ==
    /\ req[r].pc = "yielded"
    /\ Len(transactions) < MaxTx
    /\ SetDB(_debit_agent(DB, req[r].pubkey, 1, MockUsage).db)
    /\ req' = [req EXCEPT ![r] = [@ EXCEPT !.pc = "streaming",
                  !.collected = @ \o req[r].chunk, !.chunk = <<>>]]
    /\ UNCHANGED mirror_vars

\* event_generator lines 376-381: the client took the chunk and the
\* generator is resumed; the events of its data lines are appended to
\* collected_events and the loop awaits the next chunk
StreamAppend(r) ==
    /\ req[r].pc = "yielded"
    /\ req' = [req EXCEPT ![r] = [@ EXCEPT !.pc = "streaming",
                  !.collected = @ \o req[r].chunk, !.chunk = <<>>]]
    /\ UNCHANGED <<ledger_vars, mirror_vars>>

\* the tail of event_generator, the upstream stream having ended: the
\* collected events are parsed by the provider's parser, the usage is priced
\* and debited, the 200 and the chunks being with the client; the generator
\* returns and its locals are gone
StreamFinish(r) ==
    /\ req[r].pc = "streaming"
    /\ Len(transactions) < MaxTx
    /\ LET usage == IF req[r].is_anthropic
                    THEN _parse_anthropic_sse_usage(req[r].collected)
                    ELSE _parse_openai_sse_usage(req[r].collected)
           cost_usdc == _calculate_cost_usdc(usage, req[r].model)
           d == _debit_agent(DB, req[r].pubkey, cost_usdc, usage)
       IN /\ SetDB(d.db)
          /\ req' = [req EXCEPT ![r] = [@ EXCEPT !.pc = "done",
                        !.is_anthropic = FALSE, !.collected = <<>>,
                        !.steps = @ \o <<"upstream_recv">> \o
                           (IF d.ret = None THEN <<"usage", "debit_fail">>
                            ELSE <<"usage", "debit">>)]]
    /\ UNCHANGED mirror_vars

\* the upstream stream ended and one of the collected events is JSON but no
\* object: the usage parser raises inside the generator, after the last
\* chunk was relayed and before pricing
StreamBadEvent(r) ==
    /\ req[r].pc = "streaming"
    /\ req' = [req EXCEPT ![r] = [@ EXCEPT !.pc = "done",
                  !.is_anthropic = FALSE, !.collected = <<>>,
                  !.steps = Append(@, "upstream_recv")]]
    /\ UNCHANGED <<ledger_vars, mirror_vars>>

\* the mutation of the generator that bills from a finally block
StreamAbort_charge(r) ==
    /\ req[r].pc \in {"stream_open", "streaming", "yielded"}
    /\ Len(transactions) < MaxTx
    /\ SetDB(_debit_agent(DB, req[r].pubkey,
                          _calculate_cost_usdc(
                              _parse_openai_sse_usage(req[r].collected),
                              req[r].model),
                          MockUsage).db)
    /\ req' = [req EXCEPT ![r] = [@ EXCEPT !.pc = "done",
                  !.is_anthropic = FALSE, !.collected = <<>>]]
    /\ UNCHANGED mirror_vars

\* the client went away or the upstream stream failed: the generator is
\* closed or raises where it stands, at the yield of line 373 or awaiting
\* the upstream at 368-371, and its locals are gone; a chunk handed over at
\* the yield stays with the client, its data lines never appended
StreamAbort(r) ==
    /\ req[r].pc \in {"stream_open", "streaming", "yielded"}
    /\ req' = [req EXCEPT ![r] = [@ EXCEPT !.pc = "done",
                  !.is_anthropic = FALSE, !.collected = <<>>]]
    /\ UNCHANGED <<ledger_vars, mirror_vars>>

\* _debit_agent as a request calls it once its usage is known
Debit(pubkey, usage, model) ==
    /\ Len(transactions) < MaxTx
    /\ SetDB(_debit_agent(DB, pubkey, _calculate_cost_usdc(usage, model), usage).db)
    /\ UNCHANGED <<req, mirror_vars>>

\* _debit_agent lines 197-198: get_balance(pubkey, USDC) and the test
\* against cost_usdc; with enough USDC the update_balance of line 199 is
\* next, else the exchange rate of line 203 (amount holds -cost_usdc)
DebitReadUsdc(pubkey, usage, model) ==
    /\ call.debit.pc = "idle"
    /\ Len(transactions) < MaxTx
    /\ LET cost_usdc == _calculate_cost_usdc(usage, model)
           usdc_balance == get_balance(DB, pubkey, USDC_MINT)
           locals == [pc |-> "debit_rate", pubkey |-> pubkey, mint |-> None,
                      amount |-> -cost_usdc, type |-> "DEBIT",
                      usage_json |-> usage, deposit_code |-> "",
                      seen |-> usdc_balance, at |-> Len(transactions)]
       IN call' = [call EXCEPT !.debit =
                      IF usdc_balance >= cost_usdc
                      THEN [locals EXCEPT !.pc = "debit_write",
                                          !.mint = USDC_MINT]
                      ELSE locals]
    /\ UNCHANGED <<ledger_vars, req, chain, watched, poll, txn, calc, life, script>>

\* _debit_agent lines 203-207: get_exchange_rate(SOL); with no rate above
\* zero it returns None (line 213), else cost_sol is computed and the SOL
\* balance of line 208 is next
DebitReadRate ==
    /\ call.debit.pc = "debit_rate"
    /\ LET sol_rate == get_exchange_rate(DB, SOL_MINT)
           cost_usdc == -call.debit.amount
       IN call' = [call EXCEPT !.debit =
                      IF Positive(sol_rate)
                      THEN [@ EXCEPT !.pc = "debit_sol", !.mint = SOL_MINT,
                                     !.amount = -math_ceil(truediv(cost_usdc * 1000,
                                                                   sol_rate))]
                      ELSE NoCall]
    /\ UNCHANGED <<ledger_vars, req, chain, watched, poll, txn, calc, life, script>>

\* _debit_agent lines 208-209: get_balance(pubkey, SOL) and the test
\* against cost_sol; with enough SOL the update_balance of line 210 is
\* next, else it returns None (line 213)
DebitReadSol ==
    /\ call.debit.pc = "debit_sol"
    /\ LET sol_balance == get_balance(DB, call.debit.pubkey, SOL_MINT)
           cost_sol == -call.debit.amount
       IN call' = [call EXCEPT !.debit =
                      IF sol_balance >= cost_sol
                      THEN [@ EXCEPT !.pc = "debit_write",
                                     !.seen = sol_balance,
                                     !.at = Len(transactions)]
                      ELSE NoCall]
    /\ UNCHANGED <<ledger_vars, req, chain, watched, poll, txn, calc, life, script>>

\* the mutation of the write that stores the balance computed from what the
\* read saw
DebitWrite_stale ==
    /\ call.debit.pc = "debit_write"
    /\ Len(transactions) < MaxTx
    /\ LET now == get_balance(DB, call.debit.pubkey, call.debit.mint)
       IN SetDB(update_balance(DB, call.debit.pubkey, call.debit.mint,
                               (call.debit.seen + call.debit.amount) - now,
                               call.debit.type, call.debit.usage_json))
    /\ call' = [call EXCEPT !.debit = NoCall]
    /\ UNCHANGED <<req, chain, watched, poll, txn, calc, life, script>>

\* the update_balance call of _debit_agent (line 199 or 210), which then
\* returns the mint
DebitWrite ==
    /\ call.debit.pc = "debit_write"
    /\ Len(transactions) < MaxTx
    /\ SetDB(update_balance(DB, call.debit.pubkey, call.debit.mint,
                            call.debit.amount, call.debit.type,
                            call.debit.usage_json))
    /\ call' = [call EXCEPT !.debit = NoCall]
    /\ UNCHANGED <<req, chain, watched, poll, txn, calc, life, script>>

\* the deposit accounts the mirror meets while other processes write: empty
\* or funded
LedgerDeposits == {d \in Deposits : d[3] \in {0, 900}}
\* the rates set_exchange_rate is called with: SOL's, the one rate the proxy
\* reads, and USDC's own
RateInputs == ({SOL_MINT} \X SolRates) \cup {<<USDC_MINT, float(1)>>}

\* The ledger under its writers: one server process (registration, the
\* mirror's reconciliation, a request's debit, each started when no
\* synchronous caller of its event loop is under way), and outside it the
\* seed script and set_exchange_rate, committing between any two ledger
\* calls of the process.
Next ==
    \/ Quiet /\ \E t \in Tokens, c \in Codes : register_agent(t, c)
    \/ \E c \in Codes : SeedBalance(SEED_PUBKEY, SEED_AMOUNT, c)
    \/ \E c \in Codes : SeedActivate(SEED_PUBKEY, c)
    \/ Quiet /\ \E d \in LedgerDeposits : SyncRead(d[1], d[2], d[3], d[4])
    \/ SyncActivate
    \/ SyncUpdate
    \/ Quiet /\ \E p \in Agents, u \in Usages, m \in ReqModels :
                   DebitReadUsdc(p, u, m)
    \/ DebitReadRate
    \/ DebitReadSol
    \/ DebitWrite
    \/ \E x \in RateInputs : SetExchangeRate(x[1], x[2])

Spec == Init /\ [][Next]_vars

\* The ledger under the proxy's process alone: registration and the
\* synchronous calls of the mirror and of a request, nothing else writing
\* the file.
\* the code the one token registers with; deposit accounts carry it, the
\* other code, which then matches no row, or none
KernelCodes == {"CODE1"}

KernelNext ==
    \/ \E t \in Tokens, c \in KernelCodes : register_agent(t, c)
    \/ \E d \in Deposits : MirrorSync(d[1], d[2], d[3], d[4])
    \/ \E p \in Pubkeys, u \in Usages, m \in ReqModels : Debit(p, u, m)

KernelSpec == Init /\ [][KernelNext]_vars

\* one agent, its token and its deposit code are enough to drive requests
ProxyOwners == {"P1"}
ProxyTokens == {"T1"}
ProxyCodes == {"CODE1"}
\* the deposit accounts of that agent
ProxyDeposits ==
    {d \in Deposits : d[1] \in ProxyOwners /\ d[4] \in ProxyCodes \cup {""}}

\* the pipeline is driven on the OpenAI route (is_anthropic false), its
\* streams being OpenAI's closing chunk, relayed and then collected;
\* StreamNext drives both routes, every event and longer streams
ProxyStreamEvents == {SseEvent("", TRUE, 15, 25, 0, 0)}

\* the {agent_token} values a client may put in the path
PathTokens == ProxyTokens \cup {"invalid"}

\* The proxy's request pipeline, concurrent requests interleaved with
\* registration and the mirror.
ProxyNext ==
    \/ \E t \in ProxyTokens, c \in ProxyCodes : register_agent(t, c)
    \/ \E d \in ProxyDeposits : MirrorSync(d[1], d[2], d[3], d[4])
    \/ \E r \in Reqs, t \in ProxyTokens \cup {"invalid"} : ReqStart(r, t)
    \/ \E r \in Reqs, t \in ProxyTokens \cup {"invalid"} : balance_endpoint(r, t)
    \/ \E r \in Reqs, m \in ReqModels, s \in BOOLEAN : ReqBodyMock(r, m, s)
    \/ \E r \in Reqs : ReqBodyBad(r)
    \/ \E r \in Reqs : ReqBodyNoKey(r)
    \/ \E r \in Reqs, m \in ReqModels, s \in BOOLEAN : ReqBodyReal(r, m, s, FALSE)
    \/ \E r \in Reqs, u \in Usages, sc \in {200, 429} : UpstreamResponse(r, u, sc)
    \/ \E r \in Reqs : UpstreamError(r)
    \/ \E r \in Reqs : UpstreamBadBody(r)
    \/ \E r \in Reqs : StreamOpen(r)
    \/ \E r \in Reqs, e \in ProxyStreamEvents :
          req[r].collected = <<>> /\ StreamRelay(r, <<e>>)
    \/ \E r \in Reqs : StreamAppend(r)
    \/ \E r \in Reqs : StreamFinish(r)
    \/ \E r \in Reqs : StreamBadEvent(r)
    \/ \E r \in Reqs : StreamAbort(r)

ProxySpec == Init /\ [][ProxyNext]_vars

\* Streaming requests on the real upstream path, chunk by chunk, with the
\* mirror funding and correcting the agent's balances meanwhile.
\* the USDC deposit of the streaming agent: empty, or enough for six requests
StreamBalances == {0, 900}
\* the chunks of an upstream body: one usage-bearing event each, or no JSON
\* data line at all ("data: [DONE]")
StreamChunks == {<<>>} \cup {<<e>> : e \in StreamEvents}

StreamNext ==
    \/ \E t \in ProxyTokens, c \in ProxyCodes : register_agent(t, c)
    \/ \E o \in ProxyOwners, x \in StreamBalances, c \in ProxyCodes :
          MirrorSync(o, USDC_MINT, x, c)
    \/ \E r \in Reqs, t \in ProxyTokens : ReqStart(r, t)
    \/ \E r \in Reqs, m \in ReqModels, a \in BOOLEAN : ReqBodyReal(r, m, TRUE, a)
    \/ \E r \in Reqs : StreamOpen(r)
    \/ \E r \in Reqs, c \in StreamChunks : StreamRelay(r, c)
    \/ \E r \in Reqs : StreamAppend(r)
    \/ \E r \in Reqs : StreamFinish(r)
    \/ \E r \in Reqs : StreamBadEvent(r)
    \/ \E r \in Reqs : StreamAbort(r)

StreamSpec == Init /\ [][StreamNext]_vars

\* The ledger calls of a request's debit and of a mirror's reconciliation
\* with nothing ordering them: the mirror is the one of a second process
\* serving main.app on the same file (inside one event loop no await
\* separates the calls of either).  The agent's deposit accounts are funded
\* on chain meanwhile, the USDC one from 200 to 900.
RaceDeposits ==
    {<<"P1", USDC_MINT, 200, "CODE1">>, <<"P1", USDC_MINT, 900, "CODE1">>,
     <<"P1", SOL_MINT, 900, "CODE1">>}

RaceNext ==
    \/ \E t \in ProxyTokens, c \in ProxyCodes : register_agent(t, c)
    \/ \E d \in RaceDeposits : SyncRead(d[1], d[2], d[3], d[4])
    \/ SyncActivate
    \/ SyncUpdate
    \/ \E p \in ProxyOwners, m \in ReqModels : DebitReadUsdc(p, MockUsage, m)
    \/ DebitReadRate
    \/ DebitReadSol
    \/ DebitWrite

RaceSpec == Init /\ [][RaceNext]_vars

(***************************************************************************)
(* Liquid Mirror workers (mirror.py) over a set of on-chain deposit        *)
(* accounts.  chain is what the RPC provider serves: address -> parsed     *)
(* DepositAccount.  watched is _watched_accounts in insertion order.       *)
(***************************************************************************)
Addrs == {"A1", "A2"}

ChainAccounts ==
    [owner : Pubkeys, mint : Mints, deposit_code : {""},
     balance : OnChainBalances]

ChainStates ==
    UNION {[S -> ChainAccounts] : S \in SUBSET Addrs}

WatchedAddrs == {watched[i].addr : i \in 1..Len(watched)}

\* self._watched_accounts[pubkey] = owner: a dict keeps a key's first position
Watch(w, addr, owner) ==
    IF \E i \in 1..Len(w) : w[i].addr = addr
    THEN [i \in 1..Len(w) |->
            IF w[i].addr = addr THEN [addr |-> addr, owner |-> owner] ELSE w[i]]
    ELSE Append(w, [addr |-> addr, owner |-> owner])

\* the deposit accounts exist before the proxy starts; the ledger is empty
MirrorInit ==
    /\ agents = EmptyFn
    /\ transactions = <<>>
    /\ api_tokens = EmptyFn
    /\ token_config = (SOL_MINT :> float(150)) @@ (USDC_MINT :> float(1))
    /\ req = [r \in Reqs |-> IdleReq]
    /\ chain \in ChainStates
    /\ watched = <<>>
    /\ poll = StoppedPoll
    /\ txn = IdleTxn
    /\ calc = NoCalc
    /\ life = NotStarted
    /\ script = NoScript
    /\ call = NoCalls

\* start(): _running = True, then await _discover_accounts()
MirrorStart ==
    /\ poll.pc = "stopped"
    /\ poll' = [poll EXCEPT !.pc = "discover_start"]
    /\ life' = [life EXCEPT !._running = TRUE]
    /\ UNCHANGED <<ledger_vars, req, txn, calc, chain, watched, script, call>>

\* the provider serves getProgramAccounts: the accounts as they are when it
\* gets to the request, in the order it lists them
ServeProgramAccounts(accts) ==
    /\ poll.pc \in {"discover_start", "discover_poll"}
    /\ ~poll.answered
    /\ poll' = [poll EXCEPT
                  !.answered = TRUE,
                  !.answer = [i \in 1..Len(accts) |->
                                [addr |-> accts[i], account |-> chain[accts[i]]]]]
    /\ UNCHANGED <<ledger_vars, req, txn, calc, life, chain, watched, script, call>>

\* the accounts of an answer, one after the other: each is parsed, recorded
\* in the watch set and reconciled
DiscoverApply(db, w, accounts) ==
    LET RECURSIVE F(_, _, _)
        F(d, ww, rest) ==
            IF rest = <<>> THEN [db |-> d, watched |-> ww]
            ELSE LET acct == Head(rest)
                     parsed == acct.account
                 IN F(_sync_balance(d, parsed.owner, parsed.mint,
                                    parsed.balance, parsed.deposit_code),
                      Watch(ww, acct.addr, parsed.owner), Tail(rest))
    IN F(db, w, accounts)

Orders(S) ==
    {q \in [1..Cardinality(S) -> S] : \A i, j \in 1..Cardinality(S) : i # j => q[i] # q[j]}

\* start() after its discovery returned: the two workers are created
Launch(l, pc) ==
    IF pc = "discover_start"
    THEN [l EXCEPT !._tasks = <<"poll", "ws">>, !.ws = "loop"]
    ELSE l

\* after discovery the poll loop goes on to _poll_all_accounts
BeginPoll(w, count) ==
    IF w = <<>>
    THEN [poll EXCEPT !.pc = "sleep", !.todo = <<>>, !.poll_count = count,
                      !.ok = TRUE, !.backoff = POLL_INTERVAL, !.fails = 0,
                      !.answered = FALSE, !.answer = <<>>]
    ELSE [poll EXCEPT !.pc = "poll_rpc",
                      !.todo = [i \in 1..Len(w) |-> w[i].addr],
                      !.poll_count = count, !.ok = FALSE,
                      !.answered = FALSE, !.answer = <<>>]

\* _discover_accounts has returned: start() goes on to create the workers,
\* _poll_loop to its round
Discovered(w) ==
    IF poll.pc = "discover_start"
    THEN [poll EXCEPT !.pc = "sleep", !.answered = FALSE, !.answer = <<>>]
    ELSE BeginPoll(w, poll.poll_count)

\* the answer has arrived and every account of it goes through the loop
_discover_accounts ==
    /\ poll.pc \in {"discover_start", "discover_poll"}
    /\ poll.answered
    /\ LET res == DiscoverApply(DB, watched, poll.answer)
       IN /\ Len(res.db.transactions) <= MaxTx
          /\ SetDB(res.db)
          /\ watched' = res.watched
          /\ poll' = Discovered(res.watched)
    /\ life' = Launch(life, poll.pc)
    /\ UNCHANGED <<req, txn, calc, chain, script, call>>

\* what a _sync_balance whose update_balance raised has committed: the
\* activation, when it called activate_token
SyncInterrupted(db, owner_pubkey, token_mint, on_chain_balance, deposit_code) ==
    LET current == get_balance(db, owner_pubkey, token_mint)
        delta == on_chain_balance - current
    IN IF delta > 0 /\ current = 0 /\ deposit_code # ""
       THEN activate_token(db, deposit_code, owner_pubkey).db
       ELSE db

\* where the exception that ends discovery or a poll round is raised: by
\* the RPC (no answer, or one that is no JSON), while an account of the
\* answer is decoded, or inside its _sync_balance by get_balance or by
\* update_balance
FailPoints == {"rpc", "decode", "get_balance", "update_balance"}

\* an exception inside _discover_accounts, logged and swallowed by its one
\* try around the whole loop: the n accounts before it stay watched and
\* reconciled; the account it was raised for is watched already when
\* _sync_balance raised
DiscoverFail(n, at) ==
    /\ poll.pc \in {"discover_start", "discover_poll"}
    /\ \/ at = "rpc" /\ n = 0
       \/ at # "rpc" /\ poll.answered /\ n < Len(poll.answer)
    /\ LET before == DiscoverApply(DB, watched, SubSeq(poll.answer, 1, n))
           acct == poll.answer[n + 1]
           parsed == acct.account
           w == IF at \in {"get_balance", "update_balance"}
                THEN Watch(before.watched, acct.addr, parsed.owner)
                ELSE before.watched
           db == IF at = "update_balance"
                 THEN SyncInterrupted(before.db, parsed.owner, parsed.mint,
                                      parsed.balance, parsed.deposit_code)
                 ELSE before.db
       IN /\ at = "update_balance" =>
                parsed.balance # get_balance(before.db, parsed.owner, parsed.mint)
          /\ Len(db.transactions) <= MaxTx
          /\ SetDB(db)
          /\ watched' = w
          /\ poll' = Discovered(w)
    /\ life' = Launch(life, poll.pc)
    /\ UNCHANGED <<req, txn, calc, chain, script, call>>

\* LiquidMirror.register_account(account_addr, owner_pubkey)
register_account(account_addr, owner_pubkey) ==
    /\ watched' = Watch(watched, account_addr, owner_pubkey)
    /\ UNCHANGED <<ledger_vars, req, txn, calc, life, chain, poll, script, call>>

\* _poll_loop wakes: poll_count += 1, re-discover on every 6th round.
\* Only poll_count % 6 is ever read, so the counter is kept modulo 6.
PollWake ==
    /\ poll.pc = "sleep"
    /\ LET count == (poll.poll_count + 1) % 6
       IN poll' = IF count = 0
                  THEN [poll EXCEPT !.pc = "discover_poll", !.todo = <<>>,
                                    !.poll_count = count, !.ok = FALSE,
                                    !.answered = FALSE, !.answer = <<>>]
                  ELSE BeginPoll(watched, count)
    /\ UNCHANGED <<ledger_vars, req, txn, calc, life, chain, watched, script, call>>

\* the provider serves getAccountInfo for the next watched account: the
\* account as it is when it gets to the request, or null when there is none
ServeAccountInfo ==
    /\ poll.pc = "poll_rpc"
    /\ ~poll.answered
    /\ LET a == Head(poll.todo)
       IN poll' = [poll EXCEPT
                     !.answered = TRUE,
                     !.answer = IF a \in DOMAIN chain
                                THEN <<[addr |-> a, account |-> chain[a]]>>
                                ELSE <<>>]
    /\ UNCHANGED <<ledger_vars, req, txn, calc, life, chain, watched, script, call>>

\* the round is over, or goes on to the request for the next account
Polled ==
    IF Tail(poll.todo) = <<>>
    THEN [poll EXCEPT !.pc = "sleep", !.todo = <<>>, !.ok = TRUE,
                      !.backoff = POLL_INTERVAL, !.fails = 0,
                      !.answered = FALSE, !.answer = <<>>]
    ELSE [poll EXCEPT !.todo = Tail(@), !.answered = FALSE, !.answer = <<>>]

\* the answer of getAccountInfo has arrived: a null value is passed over,
\* an account is parsed and reconciled
PollAccount ==
    /\ poll.pc = "poll_rpc"
    /\ poll.answered
    /\ Len(transactions) < MaxTx
    /\ IF poll.answer = <<>>
       THEN UNCHANGED ledger_vars
       ELSE LET parsed == poll.answer[1].account
            IN SetDB(_sync_balance(DB, parsed.owner, parsed.mint,
                                   parsed.balance, parsed.deposit_code))
    /\ poll' = Polled
    /\ UNCHANGED <<req, txn, calc, life, chain, watched, script, call>>

\* what the exception that ends a poll round leaves in the ledger
PollFailed(at) ==
    IF at = "update_balance"
    THEN LET parsed == poll.answer[1].account
         IN SyncInterrupted(DB, parsed.owner, parsed.mint, parsed.balance,
                            parsed.deposit_code)
    ELSE DB

\* the exception can be raised at this point of the round
CanFail(at) ==
    /\ poll.pc = "poll_rpc"
    /\ at # "rpc" => poll.answered /\ poll.answer # <<>>
    /\ at = "update_balance" =>
          LET parsed == poll.answer[1].account
          IN parsed.balance # get_balance(DB, parsed.owner, parsed.mint)

\* the mutation of PollFail that doubles without the cap
PollFail_nocap(at) ==
    /\ CanFail(at)
    /\ SetDB(PollFailed(at))
    /\ poll' = [poll EXCEPT !.pc = "sleep", !.todo = <<>>, !.ok = FALSE,
                            !.backoff = @ * 2,
                            !.fails = Min(@ + 1, PollFailsCap),
                            !.answered = FALSE, !.answer = <<>>]
    /\ UNCHANGED <<req, txn, calc, life, chain, watched, script, call>>

\* an exception ends the round; _poll_loop logs it, doubles the backoff up
\* to MAX_BACKOFF and sleeps
PollFail(at) ==
    /\ CanFail(at)
    /\ SetDB(PollFailed(at))
    /\ poll' = [poll EXCEPT !.pc = "sleep", !.todo = <<>>, !.ok = FALSE,
                            !.backoff = Min(@ * 2, MAX_BACKOFF),
                            !.fails = Min(@ + 1, PollFailsCap),
                            !.answered = FALSE, !.answer = <<>>]
    /\ UNCHANGED <<req, txn, calc, life, chain, watched, script, call>>

\* The mirror over unchanging on-chain accounts, with the proxy debiting.
MirrorNext ==
    \/ MirrorStart
    \/ \E accts \in Orders(DOMAIN chain) : ServeProgramAccounts(accts)
    \/ _discover_accounts
    \/ \E n \in 0..Cardinality(Addrs), at \in FailPoints : DiscoverFail(n, at)
    \/ PollWake
    \/ ServeAccountInfo
    \/ PollAccount
    \/ \E at \in FailPoints : PollFail(at)
    \/ \E p \in Pubkeys, u \in Usages, m \in ReqModels : Debit(p, u, m)

MirrorSpec == MirrorInit /\ [][MirrorNext]_vars

\* the uuid4 draws of two registrations
RegistryTokens == {"T1", "T2"}

\* The token registry: registrations whose draws may collide, and first
\* deposits that activate.
RegistryNext ==
    \/ \E t \in RegistryTokens, c \in Codes : register_agent(t, c)
    \/ \E o \in Pubkeys, x \in {0, 900}, c \in DepositCodes :
          MirrorSync(o, SOL_MINT, x, c)

RegistrySpec == Init /\ [][RegistryNext]_vars

\* deposit accounts of the V3 layout, which embed a deposit code
V3Accounts ==
    [owner : Pubkeys, mint : Mints, deposit_code : ProxyCodes,
     balance : OnChainBalances]

\* an agent registered, was given CODE1 and holds the V3 account A2 made
\* for it; A1, when present, is an account without a code
ActivationInit ==
    /\ agents = EmptyFn
    /\ transactions = <<>>
    /\ api_tokens = create_api_token(
                       [agents |-> EmptyFn, transactions |-> <<>>,
                        api_tokens |-> EmptyFn,
                        token_config |-> (SOL_MINT :> float(150)) @@ (USDC_MINT :> float(1))],
                       "T1", "CODE1").api_tokens
    /\ token_config = (SOL_MINT :> float(150)) @@ (USDC_MINT :> float(1))
    /\ req = [r \in Reqs |-> IdleReq]
    /\ \E a2 \in V3Accounts :
          \/ chain = ("A2" :> a2)
          \/ \E a1 \in ChainAccounts : chain = ("A1" :> a1) @@ ("A2" :> a2)
    /\ watched = <<>>
    /\ poll = StoppedPoll
    /\ txn = IdleTxn
    /\ calc = NoCalc
    /\ life = NotStarted
    /\ script = NoScript
    /\ call = NoCalls

\* The mirror alone, over unchanging on-chain accounts.
ActivationNext ==
    \/ MirrorStart
    \/ \E accts \in Orders(DOMAIN chain) : ServeProgramAccounts(accts)
    \/ _discover_accounts
    \/ \E n \in 0..Cardinality(Addrs), at \in FailPoints : DiscoverFail(n, at)
    \/ PollWake
    \/ ServeAccountInfo
    \/ PollAccount
    \/ \E at \in FailPoints : PollFail(at)

ActivationSpec == ActivationInit /\ [][ActivationNext]_vars

(***************************************************************************)
(* The mirror's lifecycle: start(), the poll worker, the WebSocket worker  *)
(* and stop(), with deposits arriving on chain meanwhile.                  *)
(*                                                                         *)
(* _ws_subscribe() is taken message by message.  The worker sends one      *)
(* accountSubscribe per watched account and takes the next message it      *)
(* receives for its confirmation; the provider answers a request when it   *)
(* gets to it and pushes an accountNotification whenever an account with a *)
(* subscription changes.  life.request is the request the provider has not *)
(* answered yet, life.server the subscriptions it holds for the            *)
(* connection, life.inbox what it has sent and the worker has not read.    *)
(***************************************************************************)
NoRequest == [id |-> 0, addr |-> None]

\* a closed connection: nothing subscribed, nothing in flight
Closed(l) ==
    [l EXCEPT !.todo = <<>>, !.idx = 0, !.sub_ids = EmptyFn, !.subs = {},
              !.request = NoRequest, !.server = EmptyFn, !.inbox = <<>>,
              !.leave = "none"]

\* d.get(k): the value under k, or None
Get(d, k) == IF k \in DOMAIN d THEN d[k] ELSE None

\* _ws_loop lines 249-250 after a session that raised: `if self._running`
\* sends the worker to its sleep; with _running false `while self._running`
\* is read next and the coroutine is over
Rest(l) == IF l._running THEN "sleep" ELSE "exited"

\* _ws_loop's except Exception: the connection is gone, the backoff doubles
\* up to MAX_BACKOFF and the worker sleeps, or returns once stop() has begun
Backoff(l) ==
    [Closed(l) EXCEPT !.ws = Rest(l),
                      !.backoff = Min(@ * 2, MAX_BACKOFF),
                      !.fails = Min(@ + 1, WsFailsCap)]

\* `while self._running` after _ws_subscribe returned: the worker's
\* coroutine is over
Returned(l) == [Closed(l) EXCEPT !.ws = "exited", !.backoff = 1, !.fails = 0]

\* _ws_loop's except TimeoutError: the backoff goes back to 1 second and the
\* worker sleeps, or returns once stop() has begun
TimedOut(l) == [Closed(l) EXCEPT !.ws = Rest(l), !.backoff = 1, !.fails = 0]

\* _ws_loop lines 240-250 once _ws_subscribe is over: it returned, raised an
\* exception or raised a TimeoutError
After(l, how) ==
    CASE how = "return" -> Returned(l)
      [] how = "error" -> Backoff(l)
      [] how = "timeout" -> TimedOut(l)

\* the worker awaits the exit of `async with websockets.connect(...)` (line
\* 258), which closes the connection, before _ws_subscribe returns or
\* raises
Closing(l, how) == [Closed(l) EXCEPT !.ws = "closing", !.leave = how]

\* control leaves the `async with` block: the close of the connection is
\* over at once and _ws_loop goes on, or the worker is suspended in it
Leave(l, how) == {After(l, how), Closing(l, how)}

\* if not self._watched_accounts: sleep and return; otherwise start to
\* connect
WsConnect ==
    /\ life.ws = "loop"
    /\ life._running
    /\ life' = IF watched = <<>>
               THEN [life EXCEPT !.ws = "sleep", !.backoff = 1, !.fails = 0]
               ELSE [Closed(life) EXCEPT !.ws = "connect"]
    /\ UNCHANGED <<ledger_vars, req, chain, watched, poll, txn, calc, script, call>>

\* the connection is open: the loop over self._watched_accounts.items()
\* starts with the accounts watched now
WsConnected ==
    /\ life.ws = "connect"
    /\ ~life.cancel
    /\ life' = [life EXCEPT
                  !.ws = "send",
                  !.todo = [i \in 1..Len(watched) |-> watched[i].addr]]
    /\ UNCHANGED <<ledger_vars, req, chain, watched, poll, txn, calc, script, call>>

\* await ws.send(accountSubscribe, id idx + 1, account_addr)
WsSend ==
    /\ life.ws = "send"
    /\ ~life.cancel
    /\ life' = [life EXCEPT
                  !.ws = "confirm",
                  !.request = [id |-> life.idx + 1, addr |-> Head(life.todo)]]
    /\ UNCHANGED <<ledger_vars, req, chain, watched, poll, txn, calc, script, call>>

\* the provider answers the request: it registers the subscription under a
\* new id and sends {"id": ..., "result": subscription id}
ServerConfirm ==
    /\ life.request.addr # None
    /\ Len(life.inbox) < MaxInbox
    /\ LET n == Cardinality(DOMAIN life.server) + 1
       IN life' = [life EXCEPT
                     !.server = @ @@ (n :> life.request.addr),
                     !.inbox = Append(@, [id |-> life.request.id, result |-> n]),
                     !.request = NoRequest]
    /\ UNCHANGED <<ledger_vars, req, chain, watched, poll, txn, calc, script, call>>

\* confirm = json.loads(await ws.recv()); if "result" in confirm:
\* sub_ids[confirm["result"]] = account_addr; then the loop asks the dict
\* for the next account, which raises RuntimeError when an account was
\* added since the loop began; after the last account the worker listens
\* while _running
WsRecvConfirm ==
    /\ life.ws = "confirm"
    /\ ~life.cancel
    /\ life.inbox # <<>>
    /\ LET confirm == Head(life.inbox)
           account_addr == Head(life.todo)
           sub_ids == IF "result" \in DOMAIN confirm
                      THEN [n \in DOMAIN life.sub_ids \cup {confirm.result} |->
                              IF n = confirm.result THEN account_addr
                              ELSE life.sub_ids[n]]
                      ELSE life.sub_ids
           next == [life EXCEPT
                     !.inbox = Tail(@),
                     !.sub_ids = sub_ids,
                     !.subs = {sub_ids[n] : n \in DOMAIN sub_ids},
                     !.todo = Tail(@),
                     !.idx = @ + 1,
                     !.ws = IF Tail(life.todo) = <<>> THEN "listen" ELSE "send"]
       IN life' \in IF Len(watched) # life.idx + Len(life.todo)
                     THEN Leave(life, "error")
                     ELSE IF next.ws = "listen" /\ ~life._running
                     THEN Leave(life, "return")
                     ELSE {next}
    /\ UNCHANGED <<ledger_vars, req, chain, watched, poll, txn, calc, script, call>>

\* _ws_subscribe lines 296-310, the ledger after a message was handled: an
\* accountNotification whose subscription is in sub_ids is parsed and
\* reconciled; any other message is passed over
Notified(db, sub_ids, msg) ==
    LET sub_id == IF Get(msg, "method") = "accountNotification"
                  THEN msg.params.subscription ELSE 0
        account_addr == Get(sub_ids, sub_id)
    IN IF account_addr # None
       THEN LET parsed == msg.params.result.value
            IN _sync_balance(db, parsed.owner, parsed.mint,
                             parsed.balance, parsed.deposit_code)
       ELSE db

\* msg = json.loads(await asyncio.wait_for(ws.recv(), ...)) returned a
\* message, which is handled; then `while self._running` is read again and,
\* when it is false, the worker leaves the `async with` block
WsRecv ==
    /\ life.ws = "listen"
    /\ ~life.cancel
    /\ life.inbox # <<>>
    /\ Len(transactions) < MaxTx
    /\ SetDB(Notified(DB, life.sub_ids, Head(life.inbox)))
    /\ life' \in IF life._running
                  THEN {[life EXCEPT !.inbox = Tail(@)]}
                  ELSE Leave(life, "return")
    /\ UNCHANGED <<req, chain, watched, poll, txn, calc, script, call>>

\* the worker died of the exception instead of looping on
WsFail_dies ==
    /\ life.ws \in {"connect", "send", "confirm", "listen"}
    /\ ~life.cancel
    /\ life' = [Closed(life) EXCEPT !.ws = "exited"]
    /\ UNCHANGED <<ledger_vars, req, chain, watched, poll, txn, calc, script, call>>

\* connecting, subscribing or receiving raised: the exception leaves the
\* `async with` block when the connection was open; _ws_loop logs it,
\* doubles the backoff up to MAX_BACKOFF and sleeps while _running
WsFail ==
    /\ life.ws \in {"connect", "send", "confirm", "listen"}
    /\ ~life.cancel
    /\ life' \in IF life.ws = "connect" THEN {Backoff(life)}
                  ELSE Leave(life, "error")
    /\ UNCHANGED <<ledger_vars, req, chain, watched, poll, txn, calc, script, call>>

\* a TimeoutError left _ws_subscribe (the connect or the keep-alive ping
\* timed out): the backoff goes back to 1 second
WsTimeout ==
    /\ life.ws \in {"connect", "send", "confirm", "listen"}
    /\ ~life.cancel
    /\ life' \in IF life.ws = "connect" THEN {TimedOut(life)}
                  ELSE Leave(life, "timeout")
    /\ UNCHANGED <<ledger_vars, req, chain, watched, poll, txn, calc, script, call>>

\* asyncio.sleep(backoff) is over
WsWake ==
    /\ life.ws = "sleep"
    /\ life._running
    /\ life' = [life EXCEPT !.ws = "loop"]
    /\ UNCHANGED <<ledger_vars, req, chain, watched, poll, txn, calc, script, call>>

\* `while self._running` read false, at the top of _ws_loop, after its
\* sleep, or in the listener after an idle minute and its ping: the worker's
\* coroutine returns
WsExit ==
    /\ life.ws \in {"loop", "listen", "sleep"}
    /\ ~life._running
    /\ ~life.cancel
    /\ life' \in IF life.ws = "listen"
                  THEN Leave(life, "return")
                  ELSE {[Closed(life) EXCEPT !.ws = "exited"]}
    /\ UNCHANGED <<ledger_vars, req, chain, watched, poll, txn, calc, script, call>>

\* the close of the connection is over and no cancellation is waiting for
\* the task: _ws_subscribe returns, or raises what it was leaving with, and
\* _ws_loop goes on from there
WsClosed ==
    /\ life.ws = "closing"
    /\ ~life.pending
    /\ life' = After(life, life.leave)
    /\ UNCHANGED <<ledger_vars, req, chain, watched, poll, txn, calc, script, call>>

\* stop() lines 140-144, first task: _running = False, cancel() on the poll
\* task and `await task`.  Every await of _poll_loop is a plain await and
\* none of its except clauses catches CancelledError, so the worker runs no
\* line of its own after the cancel(); the WebSocket worker, not cancelled
\* yet, runs on while stop() awaits
StopBegin ==
    /\ life.stop = "idle"
    /\ life._tasks # <<>>
    /\ life' = [life EXCEPT !._running = FALSE, !.stop = "await_poll"]
    /\ poll' = [poll EXCEPT !.pc = "cancelled", !.todo = <<>>,
                            !.answered = FALSE, !.answer = <<>>]
    /\ UNCHANGED <<ledger_vars, req, chain, watched, txn, calc, script, call>>

\* the mutation of StopPollDone that goes on without cancelling the second task
StopPollDone_nocancel ==
    /\ life.stop = "await_poll"
    /\ life' = [life EXCEPT !.stop = "await_ws"]
    /\ UNCHANGED <<ledger_vars, req, chain, watched, poll, txn, calc, script, call>>

\* stop() lines 141-144, second task: the poll task has ended and stop() is
\* resumed; it calls cancel() on the WebSocket task, which requests the
\* cancellation of a task still running and does nothing to one that has
\* returned, and awaits the task
StopPollDone ==
    /\ life.stop = "await_poll"
    /\ life' = [life EXCEPT !.stop = "await_ws",
                            !.cancel = life.ws # "exited",
                            !.pending = life.ws # "exited"]
    /\ UNCHANGED <<ledger_vars, req, chain, watched, poll, txn, calc, script, call>>

\* the event loop runs the WebSocket task after the cancel(): CancelledError
\* is raised at the await it stands at (the close of the connection, when
\* the worker was leaving the `async with` block), no except clause of
\* _ws_loop catches it and the task ends cancelled
WsCancelled ==
    /\ life.pending
    /\ life.ws \notin {"exited", "cancelled"}
    /\ life' = [Closed(life) EXCEPT !.ws = "cancelled", !.pending = FALSE]
    /\ UNCHANGED <<ledger_vars, req, chain, watched, poll, txn, calc, script, call>>

\* the same, the worker standing in asyncio.wait_for(ws.recv(), ...) of
\* line 290 and ws.recv() having returned a message already: wait_for (up
\* to Python 3.11) returns the message and the cancellation is lost.  The
\* message is handled, `while self._running` reads false and the worker
\* leaves the `async with` block, then _ws_subscribe and _ws_loop by return
WsRecvCancelled ==
    /\ life.pending
    /\ life.ws = "listen"
    /\ life.inbox # <<>>
    /\ Len(transactions) < MaxTx
    /\ SetDB(Notified(DB, life.sub_ids, Head(life.inbox)))
    /\ life' \in Leave([life EXCEPT !.pending = FALSE], "return")
    /\ UNCHANGED <<req, chain, watched, poll, txn, calc, script, call>>

\* the same, ws.recv() having raised already (the connection dropped):
\* wait_for raises that exception in place of CancelledError; it leaves the
\* `async with` block, _ws_loop's except Exception doubles the backoff and
\* the worker returns
WsFailCancelled ==
    /\ life.pending
    /\ life.ws = "listen"
    /\ life' \in Leave([life EXCEPT !.pending = FALSE], "error")
    /\ UNCHANGED <<ledger_vars, req, chain, watched, poll, txn, calc, script, call>>

\* stop() lines 144-145: the WebSocket task has ended, cancelled or
\* returned, and `await task` is over; self._tasks.clear()
StopDone ==
    /\ life.stop = "await_ws"
    /\ life.ws \in {"exited", "cancelled"}
    /\ life' = [life EXCEPT !.stop = "done", !._tasks = <<>>]
    /\ UNCHANGED <<ledger_vars, req, chain, watched, poll, txn, calc, script, call>>

\* the accountNotification the provider sends for subscription n
Notification(n, account) ==
    [method |-> "accountNotification",
     params |-> [subscription |-> n, result |-> [value |-> account]]]

\* the messages the provider pushes when account a changes: one for each
\* subscription the connection holds on a
Notifications(a, account) ==
    LET ids == {n \in DOMAIN life.server : life.server[n] = a}
        RECURSIVE Push(_, _)
        Push(q, S) == IF S = {} THEN q
                      ELSE LET n == CHOOSE x \in S : \A y \in S : x <= y
                           IN Push(Append(q, Notification(n, account)), S \ {n})
    IN Push(<<>>, ids)

\* a deposit or withdrawal on chain changes the balance of an account; the
\* provider notifies the connection's subscriptions of that account
ChainDeposit(a, balance) ==
    /\ a \in DOMAIN chain
    /\ chain[a].balance # balance
    /\ chain' = [chain EXCEPT ![a].balance = balance]
    /\ LET pushed == Notifications(a, [chain[a] EXCEPT !.balance = balance])
       IN /\ Len(life.inbox) + Len(pushed) <= MaxInbox
          /\ life' = [life EXCEPT !.inbox = @ \o pushed]
    /\ UNCHANGED <<ledger_vars, req, watched, poll, txn, calc, script, call>>

\* the balances the account shows over the mirror's life
LifecycleBalances == {0, 900}

\* one deposit account, of P1, or none exists when the proxy starts
LifecycleInit ==
    /\ agents = EmptyFn
    /\ transactions = <<>>
    /\ api_tokens = EmptyFn
    /\ token_config = (SOL_MINT :> float(150)) @@ (USDC_MINT :> float(1))
    /\ req = [r \in Reqs |-> IdleReq]
    /\ \/ chain = EmptyFn
       \/ \E x \in LifecycleBalances :
             chain = ("A1" :> [owner |-> "P1", mint |-> SOL_MINT,
                               deposit_code |-> "", balance |-> x])
    /\ watched = <<>>
    /\ poll = StoppedPoll
    /\ txn = IdleTxn
    /\ calc = NoCalc
    /\ life = NotStarted
    /\ script = NoScript
    /\ call = NoCalls

LifecycleNext ==
    \/ MirrorStart
    \/ \E accts \in Orders(DOMAIN chain) : ServeProgramAccounts(accts)
    \/ _discover_accounts
    \/ \E n \in 0..Cardinality(Addrs), at \in FailPoints : DiscoverFail(n, at)
    \/ register_account("A1", "P1")
    \/ PollWake
    \/ ServeAccountInfo
    \/ PollAccount
    \/ \E at \in FailPoints : PollFail(at)
    \/ WsConnect
    \/ WsConnected
    \/ WsSend
    \/ ServerConfirm
    \/ WsRecvConfirm
    \/ WsRecv
    \/ WsFail
    \/ WsTimeout
    \/ WsClosed
    \/ WsWake
    \/ WsExit
    \/ StopBegin
    \/ StopPollDone
    \/ WsCancelled
    \/ WsRecvCancelled
    \/ WsFailCancelled
    \/ StopDone
    \/ \E a \in Addrs, x \in LifecycleBalances : ChainDeposit(a, x)

\* stop() is a coroutine of the event loop: once called it is run on when
\* the task it awaits has ended, and a task whose cancellation was requested
\* is run; the close of a connection comes to an end
LifecycleSpec ==
    /\ LifecycleInit
    /\ [][LifecycleNext]_vars
    /\ WF_vars(StopPollDone)
    /\ WF_vars(WsCancelled)
    /\ WF_vars(WsClosed)
    /\ WF_vars(StopDone)

(***************************************************************************)
(* mirror.py: parse_deposit_account.  Account data is the sequence of the  *)
(* fields the on-chain program wrote, each with its size in bytes; a u64   *)
(* is its bit 63 and the value of its low 63 bits.                         *)
(***************************************************************************)
DEPOSIT_ACCOUNT_DISCRIMINATOR == "d8926f2a5c084a3e"
DEPOSIT_ACCOUNT_LEGACY_SIZE == 48
DEPOSIT_ACCOUNT_V2_SIZE == 80
DEPOSIT_ACCOUNT_V3_SIZE == 88

Field(size, val) == [size |-> size, val |-> val]
U64(bit63, low) == [bit63 |-> bit63, low |-> low]

\* len(data)
ByteLen(data) ==
    LET RECURSIVE S(_)
        S(n) == IF n = 0 THEN 0 ELSE S(n - 1) + data[n].size
    IN S(Len(data))

\* the field of data that starts at byte offset
FieldAt(data, offset) ==
    LET i == CHOOSE k \in 1..Len(data) : ByteLen(SubSeq(data, 1, k - 1)) = offset
    IN data[i].val

\* the byte 0x00 of a deposit_code field
NUL == "\\0"

\* bytes.decode("utf-8"): the characters in order
Decode(bytes) ==
    LET RECURSIVE J(_)
        J(n) == IF n = 0 THEN "" ELSE J(n - 1) \o bytes[n]
    IN J(Len(bytes))

\* str.rstrip("\x00") on the bytes of the field
Rstrip(bytes) ==
    LET RECURSIVE R(_)
        R(n) == IF n = 0 \/ bytes[n] # NUL THEN SubSeq(bytes, 1, n)
                ELSE R(n - 1)
    IN R(Len(bytes))

\* the mutation of parse_deposit_account that accepts any u64 balance
parse_deposit_account_nolimit(data) ==
    IF ByteLen(data) < DEPOSIT_ACCOUNT_LEGACY_SIZE
    THEN NullAccount
    ELSE LET owner == FieldAt(data, 8)
             v3 == ByteLen(data) >= DEPOSIT_ACCOUNT_V3_SIZE
             v2 == ByteLen(data) >= DEPOSIT_ACCOUNT_V2_SIZE
             mint == IF v3 \/ v2 THEN FieldAt(data, 40) ELSE SOL_MINT
             deposit_code == IF v3 THEN Decode(Rstrip(FieldAt(data, 72))) ELSE ""
             balance == IF v3 THEN FieldAt(data, 80)
                        ELSE IF v2 THEN FieldAt(data, 72)
                        ELSE FieldAt(data, 40)
         IN [some |-> TRUE, owner |-> owner, mint |-> mint,
             deposit_code |-> deposit_code, balance |-> balance.low]

\* the mutation of parse_deposit_account that keeps the padding of the code
parse_deposit_account_nostrip(data) ==
    IF ByteLen(data) < DEPOSIT_ACCOUNT_LEGACY_SIZE
    THEN NullAccount
    ELSE LET owner == FieldAt(data, 8)
             v3 == ByteLen(data) >= DEPOSIT_ACCOUNT_V3_SIZE
             v2 == ByteLen(data) >= DEPOSIT_ACCOUNT_V2_SIZE
             mint == IF v3 \/ v2 THEN FieldAt(data, 40) ELSE SOL_MINT
             deposit_code == IF v3 THEN Decode(FieldAt(data, 72)) ELSE ""
             balance == IF v3 THEN FieldAt(data, 80)
                        ELSE IF v2 THEN FieldAt(data, 72)
                        ELSE FieldAt(data, 40)
         IN IF balance.bit63
            THEN NullAccount
            ELSE [some |-> TRUE, owner |-> owner, mint |-> mint,
                  deposit_code |-> deposit_code, balance |-> balance.low]

\* layout by length: V3 from 88 bytes, V2 from 80, legacy from 48; a balance
\* above MAX_SQLITE_INTEGER (bit 63 set) is rejected
parse_deposit_account(data) ==
    IF ByteLen(data) < DEPOSIT_ACCOUNT_LEGACY_SIZE
    THEN NullAccount
    ELSE LET owner == FieldAt(data, 8)
             v3 == ByteLen(data) >= DEPOSIT_ACCOUNT_V3_SIZE
             v2 == ByteLen(data) >= DEPOSIT_ACCOUNT_V2_SIZE
             mint == IF v3 \/ v2 THEN FieldAt(data, 40) ELSE SOL_MINT
             deposit_code == IF v3 THEN Decode(Rstrip(FieldAt(data, 72))) ELSE ""
             balance == IF v3 THEN FieldAt(data, 80)
                        ELSE IF v2 THEN FieldAt(data, 72)
                        ELSE FieldAt(data, 40)
         IN IF balance.bit63
            THEN NullAccount
            ELSE [some |-> TRUE, owner |-> owner, mint |-> mint,
                  deposit_code |-> deposit_code, balance |-> balance.low]

\* the builders of the three layouts
_make_legacy_account_data(discriminator, owner_bytes, balance) ==
    <<Field(8, discriminator), Field(32, owner_bytes), Field(8, balance)>>

_make_v2_account_data(discriminator, owner_bytes, mint_bytes, balance) ==
    <<Field(8, discriminator), Field(32, owner_bytes), Field(32, mint_bytes),
      Field(8, balance)>>

_make_v3_account_data(discriminator, owner_bytes, mint_bytes, deposit_code, balance) ==
    <<Field(8, discriminator), Field(32, owner_bytes), Field(32, mint_bytes),
      Field(8, deposit_code), Field(8, balance)>>

\* the first eight bytes an account of the program may start with
Discriminators == {DEPOSIT_ACCOUNT_DISCRIMINATOR, "0000000000000000"}
RawBalances == {U64(FALSE, 0), U64(FALSE, 900), U64(TRUE, 0)}

\* deposit_code fields: CODE1 padded with NULs, all NULs, and eight
\* characters with a NUL inside and one at the end
RawCodes ==
    {<<"C", "O", "D", "E", "1", NUL, NUL, NUL>>,
     <<NUL, NUL, NUL, NUL, NUL, NUL, NUL, NUL>>,
     <<"A", "B", NUL, "1", "2", "3", "X", NUL>>}

\* account data of 40 and 47 bytes, and of the three layouts
AccountData ==
    {<<Field(8, d), Field(32, o)>> : d \in Discriminators, o \in ProxyOwners}
    \cup {<<Field(8, d), Field(32, o), Field(7, 0)>> :
             d \in Discriminators, o \in ProxyOwners}
    \cup {_make_legacy_account_data(d, o, b) :
             d \in Discriminators, o \in ProxyOwners, b \in RawBalances}
    \cup {_make_v2_account_data(d, o, m, b) :
             d \in Discriminators, o \in ProxyOwners, m \in Mints, b \in RawBalances}
    \cup {_make_v3_account_data(d, o, m, c, b) :
             d \in Discriminators, o \in ProxyOwners, m \in Mints,
             c \in RawCodes, b \in RawBalances}

\* one account of a getProgramAccounts answer: decode, parse and, when the
\* parse gave an account, watch it and reconcile it
DiscoverAccount(pubkey, raw_data) ==
    /\ Len(transactions) < MaxTx
    /\ LET parsed == parse_deposit_account(raw_data)
       IN /\ calc' = [NoCalc EXCEPT !.op = "parse_deposit_account",
                                    !.data = raw_data,
                                    !.out = ByteLen(raw_data),
                                    !.parsed = parsed,
                                    !.ret = IF parsed.some THEN parsed.owner
                                            ELSE None]
          /\ IF parsed.some
             THEN /\ watched' = Watch(watched, pubkey, parsed.owner)
                  /\ SetDB(_sync_balance(DB, parsed.owner, parsed.mint,
                                         parsed.balance, parsed.deposit_code))
             ELSE UNCHANGED <<ledger_vars, watched>>
    /\ UNCHANGED <<req, chain, poll, txn, life, script, call>>

\* discovery over raw account data, for an agent registered with CODE1
ParseNext ==
    \/ \E t \in ProxyTokens, c \in ProxyCodes : register_agent(t, c)
    \/ \E d \in AccountData : DiscoverAccount("A1", d)

ParseSpec == Init /\ [][ParseNext]_vars

(***************************************************************************)
(* Two deposit accounts, the second created while the mirror runs          *)
(***************************************************************************)
\* a deposit account is created on chain
ChainOpen(a, account) ==
    /\ a \notin DOMAIN chain
    /\ chain' = chain @@ (a :> account)
    /\ UNCHANGED <<ledger_vars, req, watched, poll, txn, calc, life, script, call>>

SessionBalances == {0, 900}

\* P1's deposit account A1 exists, empty, when the proxy starts; P2's
\* account A2 is created before or after
SessionInit ==
    /\ agents = EmptyFn
    /\ transactions = <<>>
    /\ api_tokens = EmptyFn
    /\ token_config = (SOL_MINT :> float(150)) @@ (USDC_MINT :> float(1))
    /\ req = [r \in Reqs |-> IdleReq]
    /\ chain = ("A1" :> [owner |-> "P1", mint |-> SOL_MINT,
                         deposit_code |-> "", balance |-> 0])
    /\ watched = <<>>
    /\ poll = StoppedPoll
    /\ txn = IdleTxn
    /\ calc = NoCalc
    /\ life = NotStarted
    /\ script = NoScript
    /\ call = NoCalls

SessionNext ==
    \/ MirrorStart
    \/ \E accts \in Orders(DOMAIN chain) : ServeProgramAccounts(accts)
    \/ _discover_accounts
    \/ \E n \in 0..Cardinality(Addrs), at \in FailPoints : DiscoverFail(n, at)
    \/ PollWake
    \/ ServeAccountInfo
    \/ PollAccount
    \/ WsConnect
    \/ WsConnected
    \/ WsSend
    \/ ServerConfirm
    \/ WsRecvConfirm
    \/ WsRecv
    \/ WsClosed
    \/ WsWake
    \/ ChainOpen("A2", [owner |-> "P2", mint |-> SOL_MINT,
                        deposit_code |-> "", balance |-> 0])
    \/ \E a \in Addrs, x \in SessionBalances : ChainDeposit(a, x)

SessionSpec == SessionInit /\ [][SessionNext]_vars

\* The mirror over accounts whose balances stay as they are: A1 holds 900
\* lamports when the proxy starts and A2 is created, with 900, before or
\* after.  No account changes, so the provider sends no notification.
CoverageInit ==
    /\ agents = EmptyFn
    /\ transactions = <<>>
    /\ api_tokens = EmptyFn
    /\ token_config = (SOL_MINT :> float(150)) @@ (USDC_MINT :> float(1))
    /\ req = [r \in Reqs |-> IdleReq]
    /\ chain = ("A1" :> [owner |-> "P1", mint |-> SOL_MINT,
                         deposit_code |-> "", balance |-> 900])
    /\ watched = <<>>
    /\ poll = StoppedPoll
    /\ txn = IdleTxn
    /\ calc = NoCalc
    /\ life = NotStarted
    /\ script = NoScript
    /\ call = NoCalls

CoverageNext ==
    \/ MirrorStart
    \/ \E accts \in Orders(DOMAIN chain) : ServeProgramAccounts(accts)
    \/ _discover_accounts
    \/ \E n \in 0..Cardinality(Addrs), at \in FailPoints : DiscoverFail(n, at)
    \/ PollWake
    \/ ServeAccountInfo
    \/ PollAccount
    \/ WsConnect
    \/ WsConnected
    \/ WsSend
    \/ ServerConfirm
    \/ WsRecvConfirm
    \/ WsClosed
    \/ WsWake
    \/ ChainOpen("A2", [owner |-> "P2", mint |-> SOL_MINT,
                        deposit_code |-> "", balance |-> 900])

\* The workers and the provider take every step they can take: the event
\* loop runs a task that is ready, a sleep ends, and a request that does not
\* fail is answered.
CoverageSpec ==
    /\ CoverageInit
    /\ [][CoverageNext]_vars
    /\ WF_vars(MirrorStart)
    /\ WF_vars(\E accts \in Orders(DOMAIN chain) : ServeProgramAccounts(accts))
    /\ WF_vars(_discover_accounts)
    /\ WF_vars(PollWake)
    /\ WF_vars(ServeAccountInfo)
    /\ WF_vars(PollAccount)
    /\ WF_vars(WsConnect)
    /\ WF_vars(WsConnected)
    /\ WF_vars(WsSend)
    /\ WF_vars(WsClosed)
    /\ WF_vars(ServerConfirm)
    /\ WF_vars(WsRecvConfirm)
    /\ WF_vars(WsWake)

(***************************************************************************)
(* The transaction history.  Every row of transactions has an id, its      *)
(* position in the table (INTEGER PRIMARY KEY AUTOINCREMENT), and a        *)
(* timestamp, DEFAULT CURRENT_TIMESTAMP: the wall clock in whole seconds   *)
(* at the INSERT.  calc.now is that clock and calc.timestamp the timestamp *)
(* column, row by row.                                                     *)
(***************************************************************************)
MaxNow == 2
HistoryAmounts == {100, 900}

\* SELECT * FROM transactions WHERE agent_pubkey = ? [AND token_mint = ?]
\* ORDER BY timestamp DESC; `if token_mint:` filters on a mint that is
\* neither None nor the empty string.  The ORDER BY names the timestamp alone: rows of
\* one second come out as the table scan meets them, by ascending id.
get_transaction_history(db, timestamp, pubkey, token_mint) ==
    LET rows == {i \in 1..Len(db.transactions) :
                    /\ db.transactions[i].agent_pubkey = pubkey
                    /\ token_mint \notin {None, ""} =>
                          db.transactions[i].token_mint = token_mint}
        Before(i, j) == \/ timestamp[i] > timestamp[j]
                        \/ timestamp[i] = timestamp[j] /\ i < j
        order == CHOOSE f \in [1..Cardinality(rows) -> rows] :
                    \A a, b \in 1..Cardinality(rows) :
                        a < b => Before(f[a], f[b])
    IN [n \in 1..Cardinality(rows) |->
           [id |-> order[n],
            agent_pubkey |-> db.transactions[order[n]].agent_pubkey,
            token_mint |-> db.transactions[order[n]].token_mint,
            type |-> db.transactions[order[n]].type,
            amount |-> db.transactions[order[n]].amount,
            timestamp |-> timestamp[order[n]]]]

\* a second of wall-clock time passes
ClockTick ==
    /\ calc.now < MaxNow
    /\ calc' = [calc EXCEPT !.now = @ + 1]
    /\ UNCHANGED <<ledger_vars, req, chain, watched, poll, txn, life, script, call>>

\* update_balance(pubkey, token_mint, amount, "DEPOSIT") at second calc.now
HistoryUpdate(pubkey, token_mint, amount) ==
    /\ Len(transactions) < MaxTx
    /\ SetDB(update_balance(DB, pubkey, token_mint, amount, "DEPOSIT", NoUsage))
    /\ calc' = [calc EXCEPT !.op = "update_balance",
                            !.timestamp = Append(@, calc.now),
                            !.pubkey = None, !.token_mint = None,
                            !.history = <<>>]
    /\ UNCHANGED <<req, chain, watched, poll, txn, life, script, call>>

\* get_transaction_history(pubkey, token_mint); token_mint may be None
HistoryQuery(pubkey, token_mint) ==
    /\ calc' = [calc EXCEPT
                  !.op = "get_transaction_history",
                  !.pubkey = pubkey, !.token_mint = token_mint,
                  !.history = get_transaction_history(DB, calc.timestamp,
                                                      pubkey, token_mint)]
    /\ UNCHANGED <<ledger_vars, req, chain, watched, poll, txn, life, script, call>>

HistoryNext ==
    \/ ClockTick
    \/ \E p \in Pubkeys, m \in Mints, a \in HistoryAmounts : HistoryUpdate(p, m, a)
    \/ \E p \in Pubkeys, m \in Mints \cup {None} : HistoryQuery(p, m)

HistorySpec == Init /\ [][HistoryNext]_vars

(***************************************************************************)
(* update_balance() statement by statement.  Its connection opens a        *)
(* transaction with BEGIN; what the three statements write is seen by that *)
(* connection alone (txn.work) until commit() publishes it.  agents and    *)
(* transactions are what every other connection reads.                     *)
(***************************************************************************)
TxnAmounts == {900, -135}
TxnTypes == {"DEPOSIT", "DEBIT"}
TxnStatements == {"insert_row", "update", "insert_tx", "commit"}

\* conn = get_db_connection(); conn.execute("BEGIN")
TxnBegin(pubkey, token_mint, amount, tx_type) ==
    /\ txn.pc = "idle"
    /\ Len(transactions) < MaxTx
    /\ txn' = [pc |-> "insert_row", pubkey |-> pubkey, mint |-> token_mint,
               amount |-> amount, type |-> tx_type,
               work |-> [agents |-> agents, transactions |-> transactions],
               failed_at |-> None]
    /\ UNCHANGED <<ledger_vars, req, chain, watched, poll, calc, life, script, call>>

\* INSERT OR IGNORE INTO agents (pubkey, token_mint, balance) VALUES (?, ?, 0)
TxnInsertRow ==
    /\ txn.pc = "insert_row"
    /\ LET k == <<txn.pubkey, txn.mint>>
       IN txn' = [txn EXCEPT
                    !.pc = "update",
                    !.work.agents = IF k \in DOMAIN @ THEN @ ELSE @ @@ (k :> 0)]
    /\ UNCHANGED <<ledger_vars, req, chain, watched, poll, calc, life, script, call>>

\* UPDATE agents SET balance = balance + ? WHERE pubkey = ? AND token_mint = ?
TxnUpdateBalance ==
    /\ txn.pc = "update"
    /\ txn' = [txn EXCEPT
                 !.pc = "insert_tx",
                 !.work.agents[<<txn.pubkey, txn.mint>>] = @ + txn.amount]
    /\ UNCHANGED <<ledger_vars, req, chain, watched, poll, calc, life, script, call>>

\* INSERT INTO transactions (agent_pubkey, token_mint, type, amount, usage_json)
TxnInsertTx ==
    /\ txn.pc = "insert_tx"
    /\ txn' = [txn EXCEPT
                 !.pc = "commit",
                 !.work.transactions = Append(@,
                     [agent_pubkey |-> txn.pubkey, token_mint |-> txn.mint,
                      type |-> txn.type, amount |-> txn.amount,
                      usage_json |-> NoUsage])]
    /\ UNCHANGED <<ledger_vars, req, chain, watched, poll, calc, life, script, call>>

\* conn.commit(); finally: conn.close()
TxnCommit ==
    /\ txn.pc = "commit"
    /\ agents' = txn.work.agents
    /\ transactions' = txn.work.transactions
    /\ txn' = IdleTxn
    /\ UNCHANGED <<api_tokens, token_config, req, chain, watched, poll, calc, life, script, call>>

\* the mutation of TxnFail that keeps what the statements wrote so far
TxnFail_norollback ==
    /\ txn.pc \in TxnStatements
    /\ agents' = txn.work.agents
    /\ transactions' = txn.work.transactions
    /\ txn' = [IdleTxn EXCEPT !.pc = "raised", !.failed_at = txn.pc]
    /\ UNCHANGED <<api_tokens, token_config, req, chain, watched, poll, calc, life, script, call>>

\* the statement about to run raises: except Exception: conn.rollback(); raise
TxnFail ==
    /\ txn.pc \in TxnStatements
    /\ txn' = [IdleTxn EXCEPT !.pc = "raised", !.failed_at = txn.pc]
    /\ UNCHANGED <<ledger_vars, req, chain, watched, poll, calc, life, script, call>>

\* the caller has the exception; the connection is closed
TxnRaised ==
    /\ txn.pc = "raised"
    /\ txn' = IdleTxn
    /\ UNCHANGED <<ledger_vars, req, chain, watched, poll, calc, life, script, call>>

TxnNext ==
    \/ \E p \in Pubkeys, m \in Mints, a \in TxnAmounts, t \in TxnTypes :
          TxnBegin(p, m, a, t)
    \/ TxnInsertRow
    \/ TxnUpdateBalance
    \/ TxnInsertTx
    \/ TxnCommit
    \/ TxnFail
    \/ TxnRaised

TxnSpec == Init /\ [][TxnNext]_vars

(***************************************************************************)
(* The pricing functions on their own: _calculate_cost_usdc over usages    *)
(* and model names, and _debit_agent's SOL conversion over costs and       *)
(* rates, on a ledger whose agent holds lamports only.                     *)
(***************************************************************************)
TokenCounts == {0, 1, 15, 25, 333, 1000}
ModelNames == DOMAIN PRICING \cup {"unknown", "gpt-3.5-turbo"}
Lamports == 2000000

\* _calculate_cost_usdc(usage, model)
PriceUsage(input_tokens, output_tokens, model) ==
    /\ calc' = [NoCalc EXCEPT
                  !.op = "_calculate_cost_usdc",
                  !.input_tokens = input_tokens,
                  !.output_tokens = output_tokens,
                  !.model = model,
                  !.out = _calculate_cost_usdc(
                             [input_tokens |-> input_tokens,
                              output_tokens |-> output_tokens], model)]
    /\ UNCHANGED <<ledger_vars, req, chain, watched, poll, txn, life, script, call>>

\* the ledger after a deposit of lamports to pubkey, SOL priced at rate
SolOnly(pubkey, rate) ==
    update_balance(set_exchange_rate(DB, SOL_MINT, rate), pubkey, SOL_MINT,
                   Lamports, "MIRROR_DEPOSIT", NoUsage)

\* _debit_agent(pubkey, cost_usdc, usage) for an agent without USDC: what it
\* returned and the amount of the transaction it logged
ConvertDebit(pubkey, cost_usdc, rate) ==
    LET d == _debit_agent(SolOnly(pubkey, rate), pubkey, cost_usdc, MockUsage)
        log == d.db.transactions
    IN /\ calc' = [NoCalc EXCEPT
                     !.op = "_debit_agent",
                     !.cost_usdc = cost_usdc,
                     !.rate = rate,
                     !.ret = d.ret,
                     !.out = IF d.ret = None THEN 0 ELSE log[Len(log)].amount]
       /\ UNCHANGED <<ledger_vars, req, chain, watched, poll, txn, life, script, call>>

PricingNext ==
    \/ \E i \in TokenCounts, o \in TokenCounts, m \in ModelNames :
          PriceUsage(i, o, m)
    \/ \E p \in Pubkeys, c \in Costs, r \in Rates : ConvertDebit(p, c, r)

PricingSpec == Init /\ [][PricingNext]_vars

(***************************************************************************)
(* Properties of the ledger (Spec)                                         *)
(***************************************************************************)
TxOf(log, pubkey, mint) ==
    {i \in 1..Len(log) : log[i].agent_pubkey = pubkey /\ log[i].token_mint = mint}

SumAmount(log, pubkey, mint) ==
    LET RECURSIVE S(_)
        S(n) == IF n = 0 THEN 0
                ELSE S(n - 1) + (IF n \in TxOf(log, pubkey, mint)
                                 THEN log[n].amount ELSE 0)
    IN S(Len(log))

\* C1: for every (pubkey, mint) the balance get_balance returns is the sum
\* of the amounts of the transactions logged for it, 0 when there are none.
C1_Conservation ==
    \A p \in Agents, m \in DepositMints :
        get_balance(DB, p, m) = SumAmount(transactions, p, m)

\* a key credited by the mirror and then debited by the proxy
C1_Witness ==
    \E p \in Pubkeys, m \in DepositMints :
        /\ \E i \in TxOf(transactions, p, m) : transactions[i].type = "MIRROR_DEPOSIT"
        /\ \E i \in TxOf(transactions, p, m) : transactions[i].type = "DEBIT"
        /\ get_balance(DB, p, m) > 0

LastTx(log) == log[Len(log)]

IsTx(tx, pubkey, mint, type, amount) ==
    /\ tx.agent_pubkey = pubkey
    /\ tx.token_mint = mint
    /\ tx.type = type
    /\ tx.amount = amount

\* what the policy allows a debit of cost_usdc for pubkey to do to the ledger
DebitPost(pubkey, cost_usdc) ==
    LET usdc == get_balance(DB, pubkey, USDC_MINT)
        sol == get_balance(DB, pubkey, SOL_MINT)
        r == get_exchange_rate(DB, SOL_MINT)
        ret == _debit_agent(DB, pubkey, cost_usdc, MockUsage).ret
    IN IF usdc >= cost_usdc
       THEN /\ Len(transactions') = Len(transactions) + 1
            /\ SubSeq(transactions', 1, Len(transactions)) = transactions
            /\ IsTx(LastTx(transactions'), pubkey, USDC_MINT, "DEBIT", -cost_usdc)
            /\ get_balance(DB', pubkey, SOL_MINT) = sol
            /\ get_balance(DB', pubkey, USDC_MINT) = usdc - cost_usdc
            /\ ret = USDC_MINT
       ELSE IF Positive(r) /\ sol >= math_ceil(truediv(cost_usdc * 1000, r))
       THEN /\ Len(transactions') = Len(transactions) + 1
            /\ SubSeq(transactions', 1, Len(transactions)) = transactions
            /\ IsTx(LastTx(transactions'), pubkey, SOL_MINT, "DEBIT",
                    -math_ceil(truediv(cost_usdc * 1000, r)))
            /\ get_balance(DB', pubkey, USDC_MINT) = usdc
            /\ get_balance(DB', pubkey, SOL_MINT) = sol - math_ceil(truediv(cost_usdc * 1000, r))
            /\ ret = SOL_MINT
       ELSE /\ transactions' = transactions
            /\ agents' = agents
            /\ ret = None

\* C3: a debit appends exactly one DEBIT on USDC of -cost when USDC covers
\* the cost; otherwise, with SOL rate > 0 and SOL covering cost_sol, exactly
\* one DEBIT on SOL of -cost_sol; otherwise nothing. Never both mints, never
\* SOL while USDC covers the cost, and the returned mint is the debited one.
C3_UsdcFirst ==
    [][\A p \in Pubkeys, u \in Usages, m \in ReqModels :
          Debit(p, u, m) => DebitPost(p, _calculate_cost_usdc(u, m))]_vars

\* a SOL debit made while the agent held some USDC, too little for the cost
C3_Witness ==
    \E p \in Pubkeys :
        /\ \E i \in TxOf(transactions, p, SOL_MINT) : transactions[i].type = "DEBIT"
        /\ get_balance(DB, p, USDC_MINT) = 100
        /\ \E i \in TxOf(transactions, p, USDC_MINT) : i < Len(transactions)

\* C4: once a token is bound to a pubkey, no later operation changes the
\* pubkey bound to it, and no token row is ever deleted.
C4_BindingWrittenOnce ==
    [][\A t \in DOMAIN api_tokens :
          /\ t \in DOMAIN api_tokens'
          /\ api_tokens[t].pubkey # NULL =>
                api_tokens'[t].pubkey = api_tokens[t].pubkey]_vars

\* the registered pending tokens that carry deposit_code
PendingWithCode(deposit_code) ==
    {t \in DOMAIN api_tokens :
        /\ api_tokens[t].deposit_code = deposit_code
        /\ api_tokens[t].pubkey = NULL}

\* C5: in every ledger the proxy reaches, a reconciliation of a positive
\* on-chain balance X for an owner whose ledger balance of that mint is 0,
\* carrying the deposit code of a pending token T, leaves T bound to the
\* owner and the balance equal to X.
C5_FirstDepositActivates ==
    \A d \in Deposits :
        LET o == d[1]
            m == d[2]
            x == d[3]
            c == d[4]
            after == _sync_balance(DB, o, m, x, c)
        IN (x > 0 /\ get_balance(DB, o, m) = 0) =>
              /\ get_balance(after, o, m) = x
              /\ \A t \in PendingWithCode(c) :
                    get_pubkey_from_token(after, t) = o

\* a token bound to the owner of a first deposit that carried its code
C5_Witness ==
    \E t \in DOMAIN api_tokens, i \in 1..Len(transactions) :
        /\ api_tokens[t].pubkey = transactions[i].agent_pubkey
        /\ transactions[i].type = "MIRROR_DEPOSIT"
        /\ transactions[i].usage_json.local_balance_before = 0
        /\ get_balance(DB, transactions[i].agent_pubkey,
                       transactions[i].token_mint) = transactions[i].amount

\* C6: in every ledger the proxy reaches, for every deposit account, after
\* a reconciliation the balance equals the on-chain balance X; when X differs
\* from the previous balance exactly one transaction is appended, of amount
\* X - previous, MIRROR_DEPOSIT when positive and MIRROR_CORRECTION when
\* negative; when X equals it none is.
C6_Reconcile ==
    \A d \in Deposits :
        LET o == d[1]
            m == d[2]
            x == d[3]
            previous == get_balance(DB, o, m)
            after == _sync_balance(DB, o, m, x, d[4])
        IN /\ get_balance(after, o, m) = x
           /\ IF x = previous
              THEN after.transactions = transactions
              ELSE /\ Len(after.transactions) = Len(transactions) + 1
                   /\ SubSeq(after.transactions, 1, Len(transactions)) = transactions
                   /\ IsTx(LastTx(after.transactions), o, m,
                           IF x > previous THEN "MIRROR_DEPOSIT"
                           ELSE "MIRROR_CORRECTION",
                           x - previous)

\* a deposit later corrected downwards to a smaller positive balance
C6_Witness ==
    \E i, j \in 1..Len(transactions) :
        /\ i < j
        /\ transactions[i].type = "MIRROR_DEPOSIT"
        /\ transactions[j].type = "MIRROR_CORRECTION"
        /\ transactions[j].agent_pubkey = transactions[i].agent_pubkey
        /\ transactions[j].token_mint = transactions[i].token_mint
        /\ transactions[j].amount = 100 - 900

\* C7: in every ledger the proxy reaches, for every deposit account, a
\* second reconciliation with the same arguments changes nothing (balances,
\* log, token registry), so the two calls together append one transaction,
\* or none when the ledger already showed X.
C7_IdempotentResync ==
    \A d \in Deposits :
        LET once == _sync_balance(DB, d[1], d[2], d[3], d[4])
        IN /\ _sync_balance(once, d[1], d[2], d[3], d[4]) = once
           /\ Len(once.transactions) - Len(transactions) =
                 IF get_balance(DB, d[1], d[2]) = d[3] THEN 0 ELSE 1

\* a first deposit carrying a registered code has been reconciled: the
\* repeated call meets an activated token and a delta of 0
C7_Witness ==
    \E t \in DOMAIN api_tokens, i \in 1..Len(transactions) :
        /\ api_tokens[t].pubkey = transactions[i].agent_pubkey
        /\ transactions[i].type = "MIRROR_DEPOSIT"
        /\ i = Len(transactions)

(***************************************************************************)
(* Properties of the proxy (ProxySpec)                                     *)
(***************************************************************************)
\* C2: starting from an empty ledger, under every interleaving of proxy
\* requests and mirror reconciliations of on-chain balances >= 0, every
\* balance get_balance returns is >= 0.
C2_NonNegative ==
    \A p \in Pubkeys, m \in DepositMints : get_balance(DB, p, m) >= 0

Has(steps, x) == \E i \in 1..Len(steps) : steps[i] = x

\* one request has been debited while the other, admitted on the same
\* balance, is still waiting for its upstream, and the mirror has since
\* corrected the balance down to what no longer covers a request
C2_Witness ==
    \E r, q \in Reqs :
        /\ Has(req[r].steps, "debit")
        /\ req[q].pc \in {"upstream", "streaming", "yielded"}
        /\ req[q].pubkey = req[r].pubkey
        /\ \E i \in 1..Len(transactions) : transactions[i].type = "MIRROR_CORRECTION"
        /\ get_balance(DB, req[r].pubkey, USDC_MINT) = 100

Rank(x) ==
    CASE x \in {"auth", "auth_fail"} -> 1
      [] x \in {"admission", "admission_fail"} -> 2
      [] x = "upstream_send" -> 3
      [] x = "upstream_recv" -> 4
      [] x = "usage" -> 5
      [] x \in {"debit", "debit_fail"} -> 6

Debited == {r \in Reqs : Has(req[r].steps, "debit")}

\* C10: in every request the steps taken are in the order auth, admission,
\* upstream I/O, usage parse, debit; an upstream request is sent only after
\* auth and admission passed; a request that went upstream is debited only
\* after its response was received in full; and the DEBIT rows of the log
\* are exactly the debits of those requests.
C10_RequestOrder ==
    /\ \A r \in Reqs :
          LET steps == req[r].steps
          IN /\ \A i, j \in 1..Len(steps) : i < j => Rank(steps[i]) < Rank(steps[j])
             /\ Has(steps, "upstream_send") =>
                   Len(steps) >= 2 /\ steps[1] = "auth" /\ steps[2] = "admission"
             /\ req[r].status \in {401, 402} /\ ~Has(steps, "debit_fail") =>
                   ~Has(steps, "upstream_send")
             /\ req[r].pc \in {"upstream", "stream_open", "streaming", "yielded"} =>
                   ~Has(steps, "debit") /\ ~Has(steps, "usage")
             /\ Has(steps, "debit") =>
                   /\ Has(steps, "auth") /\ Has(steps, "admission")
                   /\ Has(steps, "usage")
                   /\ Has(steps, "upstream_send") => Has(steps, "upstream_recv")
    /\ Cardinality({i \in 1..Len(transactions) : transactions[i].type = "DEBIT"})
          = Cardinality(Debited)

\* two requests sent upstream and debited after their responses, one of them
\* relayed with the upstream's own 429
C10_Witness ==
    \E r, q \in Reqs :
        /\ r # q
        /\ req[r].steps = <<"auth", "admission", "upstream_send",
                            "upstream_recv", "usage", "debit">>
        /\ req[q].steps = <<"auth", "admission", "upstream_send",
                            "upstream_recv", "usage", "debit">>
        /\ req[q].status = 429

\* C11: a request to either proxy route or to the balance route whose token
\* has no row, or has a row that is not activated, is answered 401 at once
\* with the ledger (balances, transactions, token rows) unchanged; a request
\* answered 401 takes no further step, so it never reaches an upstream.
C11_TokenAuth ==
    [][/\ \A r \in Reqs, t \in PathTokens :
            ((ReqStart(r, t) \/ balance_endpoint(r, t))
               /\ (t \notin DOMAIN api_tokens \/ api_tokens[t].pubkey = NULL))
            => /\ req'[r].status = 401
               /\ req'[r].pc = "done"
               /\ ~Has(req'[r].steps, "upstream_send")
               /\ UNCHANGED ledger_vars
       /\ \A r \in Reqs : req[r].status = 401 => req'[r] = req[r]]_vars

\* a proxy request refused for a registered token that is still pending,
\* and a balance request refused for a token that has no row
C11_Witness ==
    \E r, q \in Reqs :
        /\ req[r].endpoint = "proxy"
        /\ req[r].token \in DOMAIN api_tokens
        /\ api_tokens[req[r].token].pubkey = NULL
        /\ req[r].status = 401
        /\ req[q].endpoint = "balance"
        /\ req[q].token \notin DOMAIN api_tokens
        /\ req[q].status = 401


\* the agent's balances summed over the mints
TotalBalance(pubkey) ==
    get_balance(DB, pubkey, USDC_MINT) + get_balance(DB, pubkey, SOL_MINT)
        + get_balance(DB, pubkey, OTHER_MINT)

\* C12: a proxy request whose token is activated and whose balances total
\* <= 0 is answered 402 in the step that authenticates it, before the body
\* is read, with the ledger unchanged; once answered it takes no further
\* step, so no upstream (mock or real, streaming or not) is reached.
C12_Admission ==
    [][/\ \A r \in Reqs, t \in PathTokens :
            (/\ ReqStart(r, t)
             /\ t \in DOMAIN api_tokens
             /\ api_tokens[t].pubkey # NULL
             /\ TotalBalance(api_tokens[t].pubkey) <= 0)
            => /\ req'[r].status = 402
               /\ req'[r].pc = "done"
               /\ req'[r].steps = <<"auth", "admission_fail">>
               /\ UNCHANGED ledger_vars
       /\ \A r \in Reqs :
             Has(req[r].steps, "admission_fail") => req'[r] = req[r]]_vars

\* an activated token whose deposit has been spent or corrected away:
\* its request was refused at admission
C12_Witness ==
    \E r \in Reqs :
        /\ req[r].steps = <<"auth", "admission_fail">>
        /\ req[r].status = 402
        /\ api_tokens[req[r].token].pubkey = req[r].pubkey
        /\ \E i \in 1..Len(transactions) :
              transactions[i].type = "MIRROR_DEPOSIT"
                 /\ transactions[i].agent_pubkey = req[r].pubkey

\* the log grew by exactly one DEBIT of pubkey paying cost_usdc, in USDC or
\* in lamports at the current rate
OneDebitFor(pubkey, cost_usdc, usage) ==
    /\ Len(transactions') = Len(transactions) + 1
    /\ SubSeq(transactions', 1, Len(transactions)) = transactions
    /\ LET tx == LastTx(transactions')
           rate == get_exchange_rate(DB, SOL_MINT)
       IN /\ tx.type = "DEBIT"
          /\ tx.agent_pubkey = pubkey
          /\ tx.usage_json = usage
          /\ \/ tx.token_mint = USDC_MINT /\ tx.amount = -cost_usdc
             \/ /\ tx.token_mint = SOL_MINT
                /\ Positive(rate)
                /\ tx.amount = -math_ceil(truediv(cost_usdc * 1000, rate))

\* C13: on the mock path the response is 200 exactly when one DEBIT for the
\* cost of the canned usage was appended for the requesting agent; otherwise
\* the response is 402 and the ledger is unchanged.
C13_MockBilling ==
    [][\A r \in Reqs, m \in ReqModels, s \in BOOLEAN :
          ReqBodyMock(r, m, s) =>
             LET cost == _calculate_cost_usdc(MockUsage, m)
             IN /\ req'[r].pc = "done"
                /\ req'[r].status = 200 <=> OneDebitFor(req[r].pubkey, cost, MockUsage)
                /\ req'[r].status # 200 =>
                      req'[r].status = 402 /\ UNCHANGED ledger_vars]_vars

\* two mock requests admitted on one deposit that pays for one of them:
\* the first was charged and answered 200, the second answered 402
C13_Witness ==
    \E r, q \in Reqs :
        /\ req[r].steps = <<"auth", "admission", "usage", "debit">>
        /\ req[r].status = 200
        /\ req[q].steps = <<"auth", "admission", "usage", "debit_fail">>
        /\ req[q].status = 402
        /\ req[q].pubkey = req[r].pubkey

\* C14: in every reachable ledger, _debit_agent returns None exactly when
\* USDC < cost and (SOL rate <= 0 or SOL < cost_sol), and then it returns
\* the ledger as it found it: no balance row created or changed, no
\* transaction appended; and the request step that records the failed debit
\* leaves the ledger unchanged.
C14_FailedDebitNoWrite ==
    /\ [](\A p \in Pubkeys, u \in Usages, m \in ReqModels :
            LET cost == _calculate_cost_usdc(u, m)
                d == _debit_agent(DB, p, cost, u)
                rate == get_exchange_rate(DB, SOL_MINT)
                fails == /\ get_balance(DB, p, USDC_MINT) < cost
                         /\ \/ ~Positive(rate)
                            \/ get_balance(DB, p, SOL_MINT)
                                  < math_ceil(truediv(cost * 1000, rate))
            IN /\ d.ret = None <=> fails
               /\ d.ret = None => d.db = DB)
    /\ [][\A r \in Reqs :
            (Has(req'[r].steps, "debit_fail") /\ ~Has(req[r].steps, "debit_fail"))
               => UNCHANGED ledger_vars]_vars

\* a debit refused although the agent holds lamports that would cover it:
\* the SOL rate is 0 and its USDC is short of the cost
C14_Witness ==
    \E r \in Reqs :
        /\ Has(req[r].steps, "debit_fail")
        /\ get_exchange_rate(DB, SOL_MINT) = float(0)
        /\ get_balance(DB, req[r].pubkey, SOL_MINT) = 900
        /\ get_balance(DB, req[r].pubkey, USDC_MINT) = 100

\* the largest cost of one request in a mint's units: the dearest usage
\* priced in USDC, or that price converted to lamports at the current rate
\* (no SOL debit exists at rate 0)
RequestCost(mint) ==
    LET costs == {_calculate_cost_usdc(u, m) : u \in Usages, m \in ReqModels}
        c == CHOOSE x \in costs : \A y \in costs : y <= x
        rate == get_exchange_rate(DB, SOL_MINT)
    IN IF mint = USDC_MINT THEN c
       ELSE IF mint = SOL_MINT /\ Positive(rate)
       THEN math_ceil(truediv(c * 1000, rate)) ELSE 0

\* C15: with requests for the same pubkey in flight together, each debit
\* being a get_balance check followed by an update_balance, no balance of a
\* (pubkey, mint) ever falls below -c, c the cost of a single request.
C15_BoundedOverdraft ==
    \A p \in Pubkeys, m \in DepositMints : get_balance(DB, p, m) >= -RequestCost(m)

\* two requests of one agent were in flight together on a deposit that pays
\* for one: both came back from the upstream, the first was debited and the
\* check refused the second, leaving the balance at 0
C15_Witness ==
    \E r, q \in Reqs :
        /\ r # q
        /\ req[r].pubkey = req[q].pubkey
        /\ req[r].steps = <<"auth", "admission", "upstream_send",
                            "upstream_recv", "usage", "debit">>
        /\ req[q].steps = <<"auth", "admission", "upstream_send",
                            "upstream_recv", "usage", "debit_fail">>
        /\ Len(transactions) = 2
        /\ TotalBalance(req[r].pubkey) = 0

\* _sync_balance calls activate_token(deposit_code, owner) in this state
CallsActivate(owner, mint, on_chain_balance, deposit_code) ==
    /\ on_chain_balance > get_balance(DB, owner, mint)
    /\ get_balance(DB, owner, mint) = 0
    /\ deposit_code # ""

\* C17: a token is pending (get_pubkey_from_token null) when created, stays
\* pending until an activate_token call carrying its deposit code (the
\* mirror's in _sync_balance, or the seed script's), is active (non-null)
\* after that call, and once active is active in every later state; no
\* token row disappears.
C17_PendingToActiveOneWay ==
    [][\A t \in Tokens :
          /\ (t \notin DOMAIN api_tokens /\ t \in DOMAIN api_tokens')
                => get_pubkey_from_token(DB', t) = None
          /\ t \in DOMAIN api_tokens =>
                /\ t \in DOMAIN api_tokens'
                /\ get_pubkey_from_token(DB, t) # None
                      => get_pubkey_from_token(DB', t) # None
                /\ (/\ SyncActivate
                    /\ call.sync.deposit_code = api_tokens[t].deposit_code)
                      => get_pubkey_from_token(DB', t) = call.sync.pubkey
                /\ SeedActivate(SEED_PUBKEY, api_tokens[t].deposit_code)
                      => get_pubkey_from_token(DB', t) = SEED_PUBKEY
                /\ (/\ get_pubkey_from_token(DB, t) = None
                    /\ get_pubkey_from_token(DB', t) # None)
                      => \/ /\ SyncActivate
                            /\ call.sync.deposit_code = api_tokens[t].deposit_code
                         \/ SeedActivate(SEED_PUBKEY, api_tokens[t].deposit_code)]_vars

\* a token activated by a first deposit is still active after its owner's
\* deposit was spent or corrected away and the log went on
C17_Witness ==
    \E t \in DOMAIN api_tokens, i, j \in 1..Len(transactions) :
        /\ get_pubkey_from_token(DB, t) # None
        /\ i < j
        /\ transactions[i].type = "MIRROR_DEPOSIT"
        /\ transactions[i].agent_pubkey = api_tokens[t].pubkey
        /\ transactions[j].agent_pubkey = api_tokens[t].pubkey
        /\ transactions[j].type \in {"DEBIT", "MIRROR_CORRECTION"}
        /\ TotalBalance(api_tokens[t].pubkey) = 0

\* C18: in every ledger the proxy reaches, a reconciliation whose deposit
\* code is empty, or is the code of no token row, changes no api_tokens row
\* and still brings the balance to the on-chain value, logging the delta
\* when there is one.
C18_NoActivationWithoutCode ==
    \A d \in Deposits :
        (\/ d[4] = ""
         \/ \A t \in DOMAIN api_tokens : api_tokens[t].deposit_code # d[4])
        => LET after == _sync_balance(DB, d[1], d[2], d[3], d[4])
           IN /\ after.api_tokens = api_tokens
              /\ get_balance(after, d[1], d[2]) = d[3]
              /\ Len(after.transactions) =
                    Len(transactions)
                       + (IF d[3] = get_balance(DB, d[1], d[2]) THEN 0 ELSE 1)

\* a first deposit was credited while a registered token stayed pending
C18_Witness ==
    \E t \in DOMAIN api_tokens, i \in 1..Len(transactions) :
        /\ api_tokens[t].pubkey = NULL
        /\ transactions[i].type = "MIRROR_DEPOSIT"
        /\ transactions[i].usage_json.local_balance_before = 0
        /\ get_balance(DB, transactions[i].agent_pubkey,
                       transactions[i].token_mint) = transactions[i].amount

(***************************************************************************)
(* Properties of a debit against the mirror of another process (RaceSpec)  *)
(***************************************************************************)
\* the rows logged for (pubkey, mint) after the first n transactions
RowsSince(n, pubkey, mint) ==
    {i \in (n + 1)..Len(transactions) :
        /\ transactions[i].agent_pubkey = pubkey
        /\ transactions[i].token_mint = mint}

\* what those rows add up to
SumSince(n, pubkey, mint) ==
    SumAmount(transactions, pubkey, mint)
       - SumAmount(SubSeq(transactions, 1, n), pubkey, mint)

\* C16: when the rows committed for the debited (pubkey, mint) between a
\* debit's balance check and its update_balance are mirror deposits
\* (delta > 0), neither write is lost: the debit goes through with its DEBIT
\* row appended after the deposits' rows, and the balance is the one the
\* check read, plus the deposits, minus the cost, which is >= 0.
C16_DepositDebitInterleave ==
    [][DebitWrite =>
          LET p == call.debit.pubkey
              mint == call.debit.mint
              between == RowsSince(call.debit.at, p, mint)
              delta == SumSince(call.debit.at, p, mint)
          IN (\A i \in between : /\ transactions[i].type = "MIRROR_DEPOSIT"
                                  /\ transactions[i].amount > 0)
             => /\ call'.debit.pc = "idle"
                /\ Len(transactions') = Len(transactions) + 1
                /\ SubSeq(transactions', 1, Len(transactions)) = transactions
                /\ IsTx(LastTx(transactions'), p, mint, "DEBIT",
                        call.debit.amount)
                /\ get_balance(DB', p, mint)
                      = call.debit.seen + delta + call.debit.amount
                /\ get_balance(DB', p, mint) >= 0]_vars

\* a debit whose check read the 200 of the first deposit and whose
\* update_balance is still to come, the mirror's deposit of 700 having
\* committed in between: the balance is 900 and the log has room for the
\* DEBIT row
C16_Witness ==
    /\ call.debit.pc = "debit_write"
    /\ call.debit.mint = USDC_MINT
    /\ call.debit.seen = 200
    /\ call.debit.amount = -135
    /\ Len(transactions) = call.debit.at + 1
    /\ Len(transactions) < MaxTx
    /\ IsTx(transactions[Len(transactions)], call.debit.pubkey, USDC_MINT,
            "MIRROR_DEPOSIT", 700)
    /\ get_balance(DB, call.debit.pubkey, USDC_MINT) = 900

(***************************************************************************)
(* Properties of the token registry (RegistrySpec)                         *)
(***************************************************************************)
\* C20: no two api_tokens rows share a deposit_code (rows are keyed by
\* api_token, so none share an api_token); a create_api_token whose token
\* or code is already in the table leaves every row as it was, and one
\* whose draws are fresh adds exactly the pending row.
C20_RegistryUnique ==
    /\ [](\A t, u \in DOMAIN api_tokens :
            api_tokens[t].deposit_code = api_tokens[u].deposit_code => t = u)
    /\ [][\A t \in RegistryTokens, c \in Codes :
            register_agent(t, c) =>
               IF \/ t \in DOMAIN api_tokens
                  \/ \E u \in DOMAIN api_tokens : api_tokens[u].deposit_code = c
               THEN UNCHANGED ledger_vars
               ELSE /\ DOMAIN api_tokens' = DOMAIN api_tokens \cup {t}
                    /\ api_tokens'[t] = [deposit_code |-> c, pubkey |-> NULL]
                    /\ \A u \in DOMAIN api_tokens : api_tokens'[u] = api_tokens[u]]_vars

\* two registered tokens with their two codes, both activated by deposits
\* of different owners
C20_Witness ==
    /\ DOMAIN api_tokens = RegistryTokens
    /\ api_tokens["T1"].deposit_code # api_tokens["T2"].deposit_code
    /\ api_tokens["T1"].pubkey \in Pubkeys
    /\ api_tokens["T2"].pubkey \in Pubkeys
    /\ api_tokens["T1"].pubkey # api_tokens["T2"].pubkey

\* C21: find_token_by_deposit_code(code) is the api_token from the
\* create_api_token that drew the code until an activate_token carrying the
\* code has run, and null after it; it is null for a code no row carries.
\* In terms of the registry's readers: it returns T exactly when T's row
\* carries the code and get_pubkey_from_token(T) is null.
C21_FindPendingOnly ==
    /\ [](\A c \in Codes :
            /\ RowsWithCode(DB, c) = {} => find_token_by_deposit_code(DB, c) = None
            /\ \A t \in RowsWithCode(DB, c) :
                  find_token_by_deposit_code(DB, c) =
                     IF get_pubkey_from_token(DB, t) = None THEN t ELSE None)
    /\ [][\A c \in Codes :
            /\ \A t \in RegistryTokens :
                  (/\ t \notin DOMAIN api_tokens
                   /\ RowsWithCode(DB, c) = {}
                   /\ register_agent(t, c))
                  => find_token_by_deposit_code(DB', c) = t
            /\ \A o \in Pubkeys, x \in {0, 900} :
                  (/\ RowsWithCode(DB, c) # {}
                   /\ CallsActivate(o, SOL_MINT, x, c)
                   /\ MirrorSync(o, SOL_MINT, x, c))
                  => find_token_by_deposit_code(DB', c) = None]_vars

(***************************************************************************)
(* Properties of streaming requests (StreamSpec)                           *)
(***************************************************************************)
DebitRows == {i \in 1..Len(transactions) : transactions[i].type = "DEBIT"}

\* C22: a streaming request on the real upstream path appends no
\* transaction while its chunks are relayed, neither when a chunk is
\* yielded nor when its events are collected; a DEBIT row is appended only
\* by the step that follows the end of its upstream stream, which finishes
\* the request, so each request accounts for at most one DEBIT row and a
\* request still streaming for none.
C22_StreamDebitOnceAtEnd ==
    /\ [](/\ Cardinality(DebitRows) = Cardinality(Debited)
          /\ \A r \in Reqs :
                req[r].pc \in {"stream_open", "streaming", "yielded"} =>
                   ~Has(req[r].steps, "debit") /\ ~Has(req[r].steps, "usage"))
    /\ [][/\ \A r \in Reqs :
                (req[r].pc \in {"stream_open", "streaming", "yielded"}
                    /\ req'[r].pc \in {"streaming", "yielded"})
                => (req'[r] = req[r] \/ UNCHANGED ledger_vars)
          /\ \A r \in Reqs : req[r].pc = "done" => req'[r] = req[r]
          /\ (Len(transactions') > Len(transactions)
                 /\ LastTx(transactions').type = "DEBIT")
             => /\ Len(transactions') = Len(transactions) + 1
                /\ \E r \in Reqs :
                      /\ req[r].pc = "streaming"
                      /\ req'[r].pc = "done"
                      /\ req'[r].steps = <<"auth", "admission", "upstream_send",
                                           "upstream_recv", "usage", "debit">>
                      /\ LastTx(transactions').agent_pubkey = req[r].pubkey]_vars

\* a stream that ended and was then charged, in one row, the 135 its usage
\* event prices to, while another stream, one event collected and the next
\* chunk with the client, is still open and charged nothing
C22_Witness ==
    \E r, q \in Reqs :
        /\ req[r].pc = "done"
        /\ Has(req[r].steps, "debit")
        /\ req[q].pc = "yielded"
        /\ Len(req[q].collected) = 1
        /\ Len(req[q].chunk) = 1
        /\ req[q].chunk[1].top_usage
        /\ Cardinality(DebitRows) = 1
        /\ \E i \in DebitRows : transactions[i].amount = -135

\* C23: when the client disconnects before the upstream stream has ended,
\* the request ends there: the usage collected so far is never priced, no
\* transaction is appended and no balance changes, then or later, on
\* account of that request.
C23_DisconnectNoDebit ==
    [][/\ \A r \in Reqs :
             StreamAbort(r) =>
                /\ UNCHANGED ledger_vars
                /\ req'[r].pc = "done"
                /\ ~Has(req'[r].steps, "usage")
                /\ ~Has(req'[r].steps, "debit")
       /\ \A r \in Reqs : req[r].pc = "done" => req'[r] = req[r]]_vars

\* a stream cut at the yield, its usage-bearing chunk with the client and
\* never collected, and after it a stream that ended: the one DEBIT row is
\* the second stream's, the first left none
C23_Witness ==
    \E r, q \in Reqs :
        /\ req[r].pc = "done"
        /\ Has(req[r].steps, "upstream_send")
        /\ ~Has(req[r].steps, "upstream_recv")
        /\ ~Has(req[r].steps, "debit")
        /\ Len(req[r].chunk) = 1
        /\ req[r].chunk[1].top_usage
        /\ req[q].pc = "done"
        /\ Has(req[q].steps, "debit")
        /\ Cardinality(DebitRows) = 1
        /\ get_balance(DB, req[r].pubkey, USDC_MINT) = 900 - 135

(***************************************************************************)
(* Properties of update_balance as a transaction (TxnSpec)                 *)
(***************************************************************************)
\* C24: update_balance is all-or-nothing.  When one of its statements
\* raises, the call raises and the balances and the transaction log other
\* connections read are what they were before the call; the only step that
\* changes them publishes the row, its new balance and its transaction row
\* together; and at every moment, also in the middle of a call, every
\* balance a reader sees is the sum of the transaction rows it sees.
C24_AllOrNothing ==
    /\ [](\A p \in Pubkeys, m \in Mints :
             get_balance(DB, p, m) = SumAmount(transactions, p, m))
    /\ [][TxnFail => /\ UNCHANGED ledger_vars
                     /\ txn'.pc = "raised"]_vars
    /\ [][ledger_vars' # ledger_vars =>
             /\ txn.pc = "commit"
             /\ DB' = update_balance(DB, txn.pubkey, txn.mint, txn.amount,
                                     txn.type, NoUsage)]_vars

\* a call whose INSERT INTO transactions raised, after its UPDATE had changed
\* the balance inside the open transaction, on a ledger an earlier call wrote
C24_Witness ==
    /\ txn.pc = "raised"
    /\ txn.failed_at = "insert_tx"
    /\ Len(transactions) >= 1

(***************************************************************************)
(* SOL fallback at exchange rate 0 (ProxySpec)                             *)
(***************************************************************************)
\* the ledger with the SOL row of token_config missing
NoSolRow(db) == [db EXCEPT !.token_config = (USDC_MINT :> float(1))]

\* pubkey holds lamports and no USDC while SOL converts at rate 0
OnlySolAtRateZero(pubkey) ==
    /\ get_exchange_rate(DB, SOL_MINT) = float(0)
    /\ get_balance(DB, pubkey, SOL_MINT) > 0
    /\ get_balance(DB, pubkey, USDC_MINT) = 0

\* with no usable SOL rate in db, a debit never returns SOL nor touches the
\* SOL balance, and a positive cost against no USDC fails without a write
NoSolDebit(db) ==
    \A p \in ProxyOwners, u \in Usages, m \in ReqModels :
        LET cost == _calculate_cost_usdc(u, m)
            d == _debit_agent(db, p, cost, u)
        IN /\ d.ret # SOL_MINT
           /\ get_balance(d.db, p, SOL_MINT) = get_balance(db, p, SOL_MINT)
           /\ (cost > 0 /\ get_balance(db, p, USDC_MINT) = 0) =>
                 d.ret = None /\ d.db = db

\* what the usage collected by r's stream so far prices to
StreamCost(r) ==
    _calculate_cost_usdc(IF req[r].is_anthropic
                         THEN _parse_anthropic_sse_usage(req[r].collected)
                         ELSE _parse_openai_sse_usage(req[r].collected),
                         req[r].model)

\* C25 as stated: at SOL rate 0 (or with no SOL row) _debit_agent never
\* debits SOL, and every proxy request of positive cost made by an agent
\* holding only SOL is answered 402 with the ledger unchanged.
C25_Original ==
    /\ [](get_exchange_rate(NoSolRow(DB), SOL_MINT) = float(0) /\ NoSolDebit(NoSolRow(DB)))
    /\ [](get_exchange_rate(DB, SOL_MINT) = float(0) => NoSolDebit(DB))
    /\ [][\A r \in Reqs :
            OnlySolAtRateZero(req[r].pubkey) =>
               /\ \A m \in ReqModels, s \in BOOLEAN :
                     (/\ _calculate_cost_usdc(MockUsage, m) > 0
                      /\ ReqBodyMock(r, m, s))
                        => req'[r].status = 402 /\ UNCHANGED ledger_vars
               /\ \A u \in Usages, sc \in {200, 429} :
                     (/\ _calculate_cost_usdc(u, req[r].model) > 0
                      /\ UpstreamResponse(r, u, sc))
                        => req'[r].status = 402 /\ UNCHANGED ledger_vars
               /\ (/\ StreamCost(r) > 0
                   /\ StreamFinish(r))
                     => req'[r].status = 402 /\ UNCHANGED ledger_vars]_vars

\* C25 (amended): at SOL rate 0 (or with no SOL row) _debit_agent never
\* debits SOL; a request of positive cost made by an agent holding only SOL
\* leaves the ledger unchanged, and is answered 402 on the mock path, with
\* the upstream's status on the real non-streaming path, and with the 200
\* already sent on the real streaming path.
C25_RateZeroNoSol ==
    /\ [](get_exchange_rate(NoSolRow(DB), SOL_MINT) = float(0) /\ NoSolDebit(NoSolRow(DB)))
    /\ [](get_exchange_rate(DB, SOL_MINT) = float(0) => NoSolDebit(DB))
    /\ [][\A r \in Reqs :
            OnlySolAtRateZero(req[r].pubkey) =>
               /\ \A m \in ReqModels, s \in BOOLEAN :
                     (/\ _calculate_cost_usdc(MockUsage, m) > 0
                      /\ ReqBodyMock(r, m, s))
                        => req'[r].status = 402 /\ UNCHANGED ledger_vars
               /\ \A u \in Usages, sc \in {200, 429} :
                     (/\ _calculate_cost_usdc(u, req[r].model) > 0
                      /\ UpstreamResponse(r, u, sc))
                        => req'[r].status = sc /\ UNCHANGED ledger_vars
               /\ (/\ StreamCost(r) > 0
                   /\ StreamFinish(r))
                     => req'[r].status = 200 /\ UNCHANGED ledger_vars]_vars

\* an agent whose only funds are 900 lamports, at rate 0: its mock request
\* was refused 402 and its real request was relayed 200, both unbilled
C25_Witness ==
    \E r, q \in Reqs :
        /\ OnlySolAtRateZero(req[r].pubkey)
        /\ req[q].pubkey = req[r].pubkey
        /\ req[r].steps = <<"auth", "admission", "usage", "debit_fail">>
        /\ req[r].status = 402
        /\ Has(req[q].steps, "upstream_recv")
        /\ Has(req[q].steps, "debit_fail")
        /\ req[q].status = 200
        /\ Len(transactions) = 1

(***************************************************************************)
(* Properties of the pricing functions (PricingSpec)                       *)
(***************************************************************************)
\* the per-1k prices of the table, written out, and the default ones
PriceOf(model) ==
    CASE model \in {"claude-sonnet-4-5-20250929", "claude-4.5-opus"} -> <<3000, 15000>>
      [] model = "claude-opus-4-6" -> <<15000, 75000>>
      [] model = "claude-3-5-haiku-20241022" -> <<800, 4000>>
      [] model = "gpt-4o" -> <<2500, 10000>>
      [] model = "gpt-5.2" -> <<1500, 4500>>
      [] OTHER -> <<5000, 15000>>

\* C26: the cost of a usage is the one integer n with
\* n * 1000 <= in * p.in + out * p.out < (n + 1) * 1000, the floor taken once
\* after the sum, where p is the table's entry for the model or
\* {5000, 15000} for a model the table does not have; usage {15, 25} on
\* gpt-5.2 costs 135.
C26_CostFormula ==
    calc.op = "_calculate_cost_usdc" =>
       LET p == PriceOf(calc.model)
           total == calc.input_tokens * p[1] + calc.output_tokens * p[2]
       IN /\ calc.out * 1000 <= total
          /\ total < (calc.out + 1) * 1000
          /\ (calc.model = "gpt-5.2" /\ calc.input_tokens = 15
                 /\ calc.output_tokens = 25) => calc.out = 135

\* the usage {15, 25} priced on gpt-5.2: 22.5 + 112.5 floored once is 135,
\* where flooring each term would give 134
C26_Witness ==
    /\ calc.op = "_calculate_cost_usdc"
    /\ calc.model = "gpt-5.2"
    /\ calc.input_tokens = 15
    /\ calc.output_tokens = 25
    /\ calc.out = 135

\* n * r >= x for naturals n, x and a float r > 0, decided on the exact
\* quotient of x by r
Covers(n, r, x) ==
    LET qr == DivMod(IF r.e < 0 THEN Shl(Digits(x), -r.e) ELSE Digits(x),
                     IF r.e > 0 THEN Shl(r.m, r.e) ELSE r.m)
    IN n >= qr.q + (IF qr.r = <<>> THEN 0 ELSE 1)

\* C27: a SOL debit of cost_usdc at rate r > 0 takes the least number n of
\* lamports with n * r >= cost_usdc * 1000, so it never charges less than
\* the USDC cost; cost 375 at rate 150 takes 2500.
C27_CeilToHouse ==
    (calc.op = "_debit_agent" /\ calc.ret = SOL_MINT) =>
       LET n == -calc.out
       IN /\ Covers(n, calc.rate, calc.cost_usdc * 1000)
          /\ ~Covers(n - 1, calc.rate, calc.cost_usdc * 1000)
          /\ (calc.cost_usdc = 375 /\ calc.rate = float(150)) => n = 2500

(***************************************************************************)
(* Properties of the mirror's lifecycle (LifecycleSpec)                    *)
(***************************************************************************)
\* C28: a failing getProgramAccounts call raises nothing (its caller goes
\* on) and leaves the watch set and the ledger as they were; an exception in
\* a poll round or in a WebSocket session sends the worker to its sleep (the
\* WebSocket worker once the connection it held is closed), from which it
\* loops, as long as stop() has not been called; and until stop() is called
\* both workers, once launched, are alive.
C28_FailuresContained ==
    /\ [][\A n \in 0..Cardinality(Addrs) :
             DiscoverFail(n, "rpc") =>
                /\ UNCHANGED <<ledger_vars, watched>>
                /\ poll'.pc \in {"sleep", "poll_rpc"}]_vars
    /\ [][\A at \in FailPoints : PollFail(at) => poll'.pc = "sleep"]_vars
    /\ [][(WsFail /\ life.stop = "idle") =>
             \/ life'.ws = "sleep"
             \/ life'.ws = "closing" /\ life'.leave = "error"]_vars
    /\ [][(WsClosed /\ life.stop = "idle") => life'.ws = "sleep"]_vars
    /\ []((life.stop = "idle" /\ life._tasks # <<>>) =>
             /\ poll.pc \in {"sleep", "poll_rpc", "discover_poll"}
             /\ life.ws \in {"loop", "connect", "send", "confirm", "listen",
                             "closing", "sleep"})

\* a poll round ended by an RPC error and a WebSocket session ended by an
\* exception, one account watched and mirrored, both workers asleep and
\* stop() not called
C28_Witness ==
    /\ life.stop = "idle"
    /\ life._tasks = <<"poll", "ws">>
    /\ poll.pc = "sleep" /\ ~poll.ok /\ poll.poll_count \in 1..5
    /\ life.ws = "sleep" /\ life.fails >= 1
    /\ watched # <<>>
    /\ Len(transactions) >= 1

\* C29: start() runs its discovery once, with _running true and no worker
\* yet, and only the end of that discovery launches the workers, exactly the
\* poll loop and the WebSocket loop; stop(), once it has begun, cancels the
\* poll worker, then the WebSocket worker if it is still running, awaits
\* each and comes to its end whether the WebSocket worker ends cancelled or
\* returns; there _running is false, the task list is empty and both workers
\* have ended, and from then on no reconciliation writes the ledger.
C29_Lifecycle ==
    /\ [](poll.pc = "discover_start" =>
             life._running /\ life._tasks = <<>> /\ life.ws = "none")
    /\ [](life._tasks # <<>> => life._tasks = <<"poll", "ws">>)
    /\ [][(life._tasks = <<>> /\ life'._tasks # <<>>) =>
             /\ poll.pc = "discover_start"
             /\ life'._running
             /\ life'._tasks = <<"poll", "ws">>
             /\ life'.ws = "loop"]_vars
    /\ [][poll.pc # "stopped" =>
             /\ poll'.pc # "stopped"
             /\ poll'.pc = "discover_start" => poll.pc = "discover_start"]_vars
    /\ [](life.stop # "idle" => ~life._running /\ poll.pc = "cancelled")
    /\ [](life.stop = "await_ws" =>
             life.cancel \/ life.ws \in {"cancelled", "exited"})
    /\ [](life.stop = "done" =>
             /\ life._tasks = <<>>
             /\ life.ws \in {"cancelled", "exited"})
    /\ [][life.stop = "done" => UNCHANGED ledger_vars]_vars
    /\ (life.stop = "await_poll") ~> (life.stop = "done")

\* the mirror was stopped while a notification was waiting in the listener:
\* the WebSocket worker, cancelled, still reconciled it and returned, stop()
\* came to its end, and a later change of that account on chain is not in
\* the ledger
C29_Witness ==
    /\ life.stop = "done"
    /\ life.cancel
    /\ life.ws = "exited"
    /\ Len(transactions) = 1
    /\ LastTx(transactions).type = "MIRROR_DEPOSIT"
    /\ \E a \in DOMAIN chain :
          /\ LastTx(transactions).agent_pubkey = chain[a].owner
          /\ get_balance(DB, chain[a].owner, chain[a].mint) # chain[a].balance

(***************************************************************************)
(* Properties of parse_deposit_account (ParseSpec)                         *)
(***************************************************************************)
\* C30: for account data of any length whose first 8 bytes are not the
\* deposit-account discriminator, parse_deposit_account returns null, and
\* the discovery that met the account neither watches nor reconciles it.
C30_DiscriminatorCheck ==
    [][\A d \in AccountData :
          (d[1].val # DEPOSIT_ACCOUNT_DISCRIMINATOR /\ DiscoverAccount("A1", d)) =>
             /\ ~parse_deposit_account(d).some
             /\ UNCHANGED <<ledger_vars, watched>>]_vars

\* account data the parser must refuse: shorter than 48 bytes, or in one of
\* the three layouts with bit 63 of its balance field set
Refused(d) ==
    \/ ByteLen(d) < 48
    \/ /\ ByteLen(d) \in {48, 80, 88}
       /\ d[Len(d)].val.bit63

\* C31: parse_deposit_account returns null for account data shorter than 48
\* bytes and for data of any of the three layouts whose u64 balance exceeds
\* 2^63 - 1, and the discovery that met such an account leaves the ledger
\* and the watch set unchanged.
C31_ParserRejects ==
    /\ []((calc.op = "parse_deposit_account" /\ Refused(calc.data)) =>
             calc.parsed = NullAccount)
    /\ [][\A d \in AccountData :
             (Refused(d) /\ DiscoverAccount("A1", d)) =>
                UNCHANGED <<ledger_vars, watched>>]_vars

\* an 88-byte account with the right discriminator refused for its balance,
\* met after an account that was mirrored
C31_Witness ==
    /\ calc.op = "parse_deposit_account"
    /\ calc.out = 88
    /\ calc.data[1].val = DEPOSIT_ACCOUNT_DISCRIMINATOR
    /\ calc.data[5].val.bit63
    /\ calc.parsed = NullAccount
    /\ Len(transactions) >= 1

\* the text of each deposit_code field with its trailing NULs removed
Stripped(c) ==
    CASE c = <<"C", "O", "D", "E", "1", NUL, NUL, NUL>> -> "CODE1"
      [] c = <<NUL, NUL, NUL, NUL, NUL, NUL, NUL, NUL>> -> ""
      [] c = <<"A", "B", NUL, "1", "2", "3", "X", NUL>> -> "AB" \o NUL \o "123X"

InRange == {b \in RawBalances : ~b.bit63}

\* C32: account data built in one of the three layouts with a balance of
\* at most 2^63 - 1 parses to the fields it was built from: 48 bytes give
\* the owner, SOL, no code and the balance; 80 bytes the owner, the mint, no
\* code and the balance; 88 bytes the owner, the mint, the code without its
\* trailing NULs and the balance.
C32_RoundTrip ==
    calc.op = "parse_deposit_account" =>
       \A o \in ProxyOwners, m \in Mints, c \in RawCodes, b \in InRange :
          LET D == DEPOSIT_ACCOUNT_DISCRIMINATOR
          IN /\ calc.data = _make_legacy_account_data(D, o, b) =>
                   /\ calc.out = 48
                   /\ calc.parsed = [some |-> TRUE, owner |-> o, mint |-> SOL_MINT,
                                     deposit_code |-> "", balance |-> b.low]
             /\ calc.data = _make_v2_account_data(D, o, m, b) =>
                   /\ calc.out = 80
                   /\ calc.parsed = [some |-> TRUE, owner |-> o, mint |-> m,
                                     deposit_code |-> "", balance |-> b.low]
             /\ calc.data = _make_v3_account_data(D, o, m, c, b) =>
                   /\ calc.out = 88
                   /\ calc.parsed = [some |-> TRUE, owner |-> o, mint |-> m,
                                     deposit_code |-> Stripped(c),
                                     balance |-> b.low]

\* an 88-byte USDC account carrying CODE1 padded with NULs and 900 units:
\* the parsed code is the registered one, and the token it names got bound
C32_Witness ==
    /\ calc.op = "parse_deposit_account"
    /\ calc.data = _make_v3_account_data(DEPOSIT_ACCOUNT_DISCRIMINATOR, "P1",
                      USDC_MINT, <<"C", "O", "D", "E", "1", NUL, NUL, NUL>>,
                      U64(FALSE, 900))
    /\ calc.parsed.deposit_code = "CODE1"
    /\ calc.parsed.balance = 900
    /\ \E t \in DOMAIN api_tokens : api_tokens[t].pubkey = "P1"

(***************************************************************************)
(* Per-asset isolation (Spec)                                              *)
(***************************************************************************)
\* the transactions of (pubkey, mint), in the order they were appended
HistoryOf(log, pubkey, mint) ==
    LET Mine(tx) == tx.agent_pubkey = pubkey /\ tx.token_mint = mint
    IN SelectSeq(log, Mine)

\* every key but (pubkey, mint) keeps its row, its balance and its history
OthersUntouched(pubkey, mint) ==
    \A k \in Keys :
        k # <<pubkey, mint>> =>
           /\ k \in DOMAIN agents' <=> k \in DOMAIN agents
           /\ get_balance(DB', k[1], k[2]) = get_balance(DB, k[1], k[2])
           /\ HistoryOf(transactions', k[1], k[2]) = HistoryOf(transactions, k[1], k[2])

\* C33: a ledger call that writes (an update_balance, alone or inside
\* _sync_balance or a debit) appends one transaction for one (pubkey, mint)
\* and leaves the row, the balance and the history of every other key as
\* they were; a call that appends nothing changes no balance; and
\* get_all_balances(pubkey) lists exactly the mints that pubkey has a
\* transaction for.
C33_AssetIsolation ==
    /\ [](\A p \in Agents :
             DOMAIN get_all_balances(DB, p)
                = {m \in DepositMints : TxOf(transactions, p, m) # {}})
    /\ [][IF transactions' # transactions
          THEN /\ Len(transactions') = Len(transactions) + 1
               /\ SubSeq(transactions', 1, Len(transactions)) = transactions
               /\ OthersUntouched(LastTx(transactions').agent_pubkey,
                                  LastTx(transactions').token_mint)
          ELSE agents' = agents]_vars

\* P1 holds both assets and P2 one, each written by its own call, and P1's
\* two balances differ
C33_Witness ==
    /\ DOMAIN get_all_balances(DB, "P1") = Mints
    /\ DOMAIN get_all_balances(DB, "P2") = {SOL_MINT}
    /\ get_balance(DB, "P1", SOL_MINT) # get_balance(DB, "P1", USDC_MINT)
    /\ get_balance(DB, "P2", SOL_MINT) > 0

(***************************************************************************)
(* History order (HistorySpec)                                             *)
(***************************************************************************)
\* the ids of the rows the last get_transaction_history returned, in order
ReturnedIds == [n \in DOMAIN calc.history |-> calc.history[n].id]

\* the ids of the rows of pubkey (and of mint, when one is given), newest first
NewestFirst(pubkey, mint) ==
    LET Mine(i) == /\ transactions[i].agent_pubkey = pubkey
                   /\ mint # None => transactions[i].token_mint = mint
        RECURSIVE Down(_)
        Down(n) == IF n = 0 THEN <<>>
                   ELSE IF Mine(n) THEN <<n>> \o Down(n - 1)
                   ELSE Down(n - 1)
    IN Down(Len(transactions))

\* C34: get_transaction_history(pubkey, mint?) returns the transactions of
\* that agent (of that mint only, when one is given) in reverse order of
\* insertion, the most recently appended first, also when several were
\* committed within the same second.
C34_HistoryOrder ==
    calc.op = "get_transaction_history" =>
        ReturnedIds = NewestFirst(calc.pubkey, calc.token_mint)

\* what the query does keep: the rows returned are exactly those of the agent
\* (and mint), each once, and a row of a later second comes before a row of
\* an earlier one
C34_FilterAndSeconds ==
    calc.op = "get_transaction_history" =>
        /\ Len(ReturnedIds) = Len(NewestFirst(calc.pubkey, calc.token_mint))
        /\ {ReturnedIds[n] : n \in DOMAIN ReturnedIds}
              = {NewestFirst(calc.pubkey, calc.token_mint)[n] :
                    n \in DOMAIN NewestFirst(calc.pubkey, calc.token_mint)}
        /\ \A a, b \in DOMAIN calc.history :
              a < b => calc.history[a].timestamp >= calc.history[b].timestamp

\* two deposits of P1 within one second, a third of another mint a second
\* later, and the SOL history asked for
C34_Witness ==
    /\ calc.op = "get_transaction_history"
    /\ calc.pubkey = "P1" /\ calc.token_mint = SOL_MINT
    /\ Len(transactions) = 3
    /\ calc.timestamp = <<0, 0, 1>>
    /\ transactions[1].token_mint = SOL_MINT /\ transactions[1].agent_pubkey = "P1"
    /\ transactions[2].token_mint = SOL_MINT /\ transactions[2].agent_pubkey = "P1"
    /\ transactions[3].token_mint = USDC_MINT /\ transactions[3].agent_pubkey = "P1"
    /\ ReturnedIds = <<1, 2>>

(***************************************************************************)
(* Backoff of the two workers (LifecycleSpec)                              *)
(***************************************************************************)
\* C35: the interval the poll loop sleeps is always between 5 and 60
\* seconds: min(5 * 2^k, 60) after k failing rounds in a row and 5 after a
\* round that succeeded; the delay before the WebSocket worker reconnects is
\* always between 1 and 60 seconds: it doubles with every failure in a row,
\* up to 60.
C35_BackoffBounds ==
    /\ poll.backoff >= POLL_INTERVAL /\ poll.backoff <= MAX_BACKOFF
    /\ poll.backoff = Min(POLL_INTERVAL * TwoTo(poll.fails), MAX_BACKOFF)
    /\ (poll.pc = "sleep" /\ poll.ok) => poll.backoff = POLL_INTERVAL
    /\ life.backoff >= 1 /\ life.backoff <= MAX_BACKOFF
    /\ life.backoff = Min(TwoTo(life.fails), MAX_BACKOFF)

\* both workers asleep at the cap: the poll loop after four failing rounds
\* in a row, the WebSocket worker after six failures in a row
C35_Witness ==
    /\ poll.pc = "sleep" /\ ~poll.ok
    /\ poll.fails = 4 /\ poll.backoff = 60
    /\ life.ws = "sleep"
    /\ life.fails = 6 /\ life.backoff = 60

(***************************************************************************)
(* Subscription coverage (CoverageSpec)                                    *)
(***************************************************************************)
\* C36: every account in the watch set eventually has an active
\* accountSubscribe subscription on the WebSocket connection, also an
\* account that a discovery added after the connection was opened.
C36_SubscriptionCoverage ==
    \A a \in Addrs : (a \in WatchedAddrs) ~> (a \in life.subs)

(***************************************************************************)
(* Properties of the WebSocket session (SessionSpec)                       *)
(***************************************************************************)
\* the notification at the head of the inbox is one the listener reconciles
HeadReconciled ==
    /\ life.ws = "listen"
    /\ life.inbox # <<>>
    /\ Get(Head(life.inbox), "method") = "accountNotification"
    /\ Head(life.inbox).params.subscription \in DOMAIN life.sub_ids

\* reconciling the observation `account` in this step leaves the ledger at
\* the observed balance, by one transaction of the difference, or by none
\* when the ledger was there already
CreditedOnce(account) ==
    LET before == get_balance(DB, account.owner, account.mint)
    IN /\ get_balance(DB', account.owner, account.mint) = account.balance
       /\ IF before = account.balance
          THEN UNCHANGED ledger_vars
          ELSE /\ Len(transactions') = Len(transactions) + 1
               /\ LastTx(transactions').agent_pubkey = account.owner
               /\ LastTx(transactions').token_mint = account.mint
               /\ LastTx(transactions').amount = account.balance - before

\* C37: _sync_balance reads the balance and writes the difference in one
\* step of its task, so whichever of the poll worker and the WebSocket
\* worker reconciles an observation X, the ledger is at X afterwards and at
\* most one transaction was appended; the worker that comes second with the
\* same X finds the ledger at X and appends nothing.
C37_NoDoubleCredit ==
    /\ [][(poll.answer # <<>> /\ PollAccount) =>
             CreditedOnce(poll.answer[1].account)]_vars
    /\ [][(HeadReconciled /\ WsRecv) =>
             CreditedOnce(Head(life.inbox).params.result.value)]_vars

\* the poll worker has credited A1's deposit of 900 lamports, by the one
\* transaction of the ledger, while the notification of the same 900 waits
\* in the inbox of the listener, which has reconciled nothing yet
C37_Witness ==
    /\ HeadReconciled
    /\ \A i \in 1..Len(transactions) :
          transactions[i].usage_json.on_chain_balance = 900
    /\ Head(life.inbox).params.result.value.balance = 900
    /\ life.sub_ids[Head(life.inbox).params.subscription] = "A1"
    /\ chain["A1"].balance = 900
    /\ poll.pc = "sleep" /\ poll.ok
    /\ get_balance(DB, "P1", SOL_MINT) = 900
    /\ Len(transactions) = 1

\* C39: every accountSubscribe the provider confirmed has its subscription
\* id in sub_ids, under the account it was made for, once the handshake is
\* over, however the confirmations are interleaved with notifications of
\* subscriptions made earlier on the connection; so the message taken for a
\* confirmation is never a notification, and every notification the listener
\* receives for a subscription of the connection is reconciled.
C39_Handshake ==
    /\ [](life.ws = "listen" =>
             \A n \in DOMAIN life.server :
                 /\ n \in DOMAIN life.sub_ids
                 /\ life.sub_ids[n] = life.server[n])
    /\ [][WsRecvConfirm => "result" \in DOMAIN Head(life.inbox)]_vars
    /\ [][(/\ life.ws = "listen"
           /\ life.inbox # <<>>
           /\ Get(Head(life.inbox), "method") = "accountNotification"
           /\ WsRecv) =>
             LET account == Head(life.inbox).params.result.value
             IN get_balance(DB', account.owner, account.mint) = account.balance]_vars

\* what the handshake does keep: an id in sub_ids is one the provider
\* assigned, and while no account changes during the handshake every
\* confirmed subscription is recorded under its account
C39_RecordedAreConfirmed ==
    \A n \in DOMAIN life.sub_ids : n \in DOMAIN life.server

(***************************************************************************)
(* The real upstream path when the debit fails (ProxySpec)                 *)
(***************************************************************************)
\* the debit of request r for this usage would return None
DebitWouldFail(r, usage) ==
    _debit_agent(DB, req[r].pubkey,
                 _calculate_cost_usdc(usage, req[r].model), usage).ret = None

\* C38: admission reserves nothing.  A request on the real, non-streaming
\* path was admitted with a total balance above 0; when the upstream answers
\* and _debit_agent then returns None, the client still gets the upstream's
\* status and body as they came, no transaction is appended and no balance
\* changes.
C38_AdmissionReservesNothing ==
    /\ [](\A r \in Reqs : req[r].pc = "upstream" =>
             /\ Has(req[r].steps, "admission")
             /\ req[r].pubkey \in Pubkeys)
    /\ [][\A r \in Reqs, u \in Usages, sc \in {200, 429} :
            (/\ req[r].pc = "upstream"
             /\ DebitWouldFail(r, u)
             /\ UpstreamResponse(r, u, sc))
               => /\ req'[r].status = sc
                  /\ req'[r].content = u
                  /\ UNCHANGED ledger_vars]_vars

\* P1 was admitted holding 900 USDC units; the mirror corrected the balance
\* down to 100 while the request was upstream; the answer, 200 with usage
\* {15, 25}, costs 135: the debit failed and the answer was relayed as it came
C38_Witness ==
    \E r \in Reqs :
        /\ req[r].steps = <<"auth", "admission", "upstream_send",
                            "upstream_recv", "usage", "debit_fail">>
        /\ req[r].status = 200
        /\ req[r].content = MockUsage
        /\ req[r].pubkey = "P1"
        /\ Len(transactions) = 2
        /\ transactions[1].amount = 900
        /\ transactions[2].type = "MIRROR_CORRECTION"
        /\ get_balance(DB, "P1", USDC_MINT) = 100
        /\ ~(<<"P1", SOL_MINT>> \in DOMAIN agents)

(***************************************************************************)
(* A failure inside a poll round (ActivationSpec)                          *)
(***************************************************************************)
\* C40: within one round of _poll_all_accounts a failure while fetching,
\* decoding or reconciling one watched account does not keep the accounts
\* after it from being polled and reconciled in that round: the round goes
\* on with them.
C40_PollIsolation ==
    [][(\E at \in FailPoints : PollFail(at)) =>
          IF Tail(poll.todo) = <<>>
          THEN poll'.pc = "sleep"
          ELSE poll'.pc = "poll_rpc" /\ poll'.todo = Tail(poll.todo)]_vars

\* what a failure does leave alone: the balances, the log and the watch
\* set; the accounts it cut off are polled again in the next round
C40_FailedRoundRetried ==
    /\ [][\A at \in FailPoints :
             PollFail(at) => UNCHANGED <<agents, transactions, watched>>]_vars
    /\ [][(poll.pc = "sleep" /\ ~poll.ok /\ watched # <<>> /\ PollWake) =>
             \/ poll'.pc = "discover_poll"
             \/ /\ poll'.pc = "poll_rpc"
                /\ {poll'.todo[i] : i \in 1..Len(poll'.todo)} = WatchedAddrs]_vars

(***************************************************************************)
(* Properties of the mirror (MirrorSpec: on-chain balances never change)   *)
(***************************************************************************)
\* the only deposit account of its (owner, mint)
Sole(a) ==
    \A b \in DOMAIN chain :
        (chain[b].owner = chain[a].owner /\ chain[b].mint = chain[a].mint) => b = a

\* C8: while the on-chain balance of an agent's deposit account does not
\* change, a completed proxy debit is never re-credited by the mirror: once
\* the agent has been charged, its ledger balance never increases.
C8_DebitNotReCredited ==
    [][\A a \in DOMAIN chain :
          LET p == chain[a].owner
              m == chain[a].mint
          IN (/\ Sole(a)
              /\ \E i \in TxOf(transactions, p, m) :
                    transactions[i].type = "DEBIT" /\ transactions[i].amount < 0)
             => get_balance(DB', p, m) <= get_balance(DB, p, m)]_vars

\* C9: with on-chain balances unchanged and no proxy debit, once a poll
\* round has polled every watched account successfully the ledger shows,
\* for every watched account, that account's on-chain balance under the
\* (owner, mint) parsed from its data.
C9_QuiescentSynced ==
    (/\ poll.pc = "sleep"
     /\ poll.ok
     /\ \A i \in 1..Len(transactions) : transactions[i].type # "DEBIT")
    => \A a \in WatchedAddrs :
          get_balance(DB, chain[a].owner, chain[a].mint) = chain[a].balance

\* C19: a pending token whose deposit code is embedded in a discovered
\* deposit account with a positive on-chain balance is activated by the
\* mirror, bound to the account's owner, whatever the owner's ledger balance
\* for that mint: once a poll round has reconciled every watched account,
\* no such token is still pending.  (The on-chain accounts do not change, so
\* every later round repeats this one.)
C19_DepositActivates ==
    (poll.pc = "sleep" /\ poll.ok)
    => \A a \in WatchedAddrs, t \in DOMAIN api_tokens :
          (/\ api_tokens[t].deposit_code = chain[a].deposit_code
           /\ chain[a].balance > 0)
          => api_tokens[t].pubkey = chain[a].owner

====
